---- MODULE Spec2Model ----
(***************************************************************************)
(* Audio-reactive lighting: the colour mappers of color_mapping.py and the *)
(* dispatch pipeline of MusicVisualizer (music_visualizer.py).             *)
(*                                                                         *)
(* Real numbers of the source are fixed-point integers here: a level, a    *)
(* peak, a hue or a saturation x in [0,1] is the integer x * Scale, and    *)
(* every product is truncated the way int() truncates a non-negative       *)
(* float.                                                                  *)
(***************************************************************************)
EXTENDS Integers, Sequences, FiniteSets, TLC

\* ------------------------------------------------------------------------
\* Bounds of the model
\* ------------------------------------------------------------------------
\* fixed-point resolution: 1.0 is Scale
Scale == 10 ^ 3
\* binary digits of a fractional exponent that Pow honours
PowBits == 8
\* map / map_lights calls explored per mapper
MaxCalls == 3
\* largest fixture count passed to map_lights
MaxLights == 4
\* loud frames a session has already played before the explored calls
WarmCalls == 9

\* the frames fed to a mapper, <<bass, mids, treble, amplitude>>: silence,
\* every band full, bass alone, bass with treble, mids with treble, treble
\* alone at half amplitude, every band at half level, and a frame below the
\* noise gate
Frames ==
    {<<0, 0, 0, 0>>,
     <<Scale, Scale, Scale, Scale>>,
     <<Scale, 0, 0, Scale>>,
     <<Scale, 0, Scale, Scale>>,
     <<0, Scale, Scale, Scale>>,
     <<0, 0, Scale, Scale \div 2>>,
     <<Scale \div 2, Scale \div 2, Scale \div 2, Scale \div 2>>,
     <<Scale \div 100, 0, 0, Scale \div 100>>}

\* ------------------------------------------------------------------------
\* Arithmetic
\* ------------------------------------------------------------------------
Max(a, b) == IF a >= b THEN a ELSE b

Min(a, b) == IF a <= b THEN a ELSE b

\* np.clip(x, lo, hi)
Clip(x, lo, hi) == IF x < lo THEN lo ELSE IF x > hi THEN hi ELSE x

RECURSIVE SqrtSearch(_, _, _)
SqrtSearch(n, lo, hi) ==
    IF lo >= hi THEN lo
    ELSE LET mid == (lo + hi + 1) \div 2
         IN  IF mid * mid <= n THEN SqrtSearch(n, mid, hi)
                               ELSE SqrtSearch(n, lo, mid - 1)

\* floor of the square root of n
ISqrt(n) == SqrtSearch(n, 0, Scale + 1)

\* x ** (1 / 2^k) for x in [0,1]
RECURSIVE Root(_, _)
Root(x, k) == IF k = 0 THEN x ELSE ISqrt(Root(x, k - 1) * Scale)

\* x ** n for a natural n
RECURSIVE IPow(_, _)
IPow(x, n) == IF n = 0 THEN Scale ELSE (x * IPow(x, n - 1)) \div Scale

\* x ** (frac / Scale), the exponent read to PowBits binary digits
RECURSIVE FracPow(_, _, _)
FracPow(x, frac, k) ==
    IF k > PowBits THEN Scale
    ELSE LET bit  == ((frac * (2 ^ k)) \div Scale) % 2
             rest == FracPow(x, frac, k + 1)
         IN  IF bit = 1 THEN (Root(x, k) * rest) \div Scale ELSE rest

\* x ** (g / Scale): Python's float power on [0,1]
PowCalc(x, g) == (IPow(x, g \div Scale) * FracPow(x, g % Scale, 1)) \div Scale

\* the exponents the mappers use: gamma 0.9 and 0.7, the follower's 1.1, the
\* contrast curve 1.5, and 1 / brightness_emphasis
Exponents == {900, 700, 1100, 1500, 666}

\* PowCalc, tabulated once for the exponents in use
PowTable == [g \in Exponents |-> [x \in 0..Scale |-> PowCalc(x, g)]]

Pow(x, g) == IF g \in Exponents THEN PowTable[g][x] ELSE PowCalc(x, g)

\* ------------------------------------------------------------------------
\* Python values returned by the mappers
\* ------------------------------------------------------------------------
PyInt(x) == [py |-> "int", v |-> <<x>>]

\* one (r, g, b, brightness) command as an element of a list
Cmd(py, r, g, b, bri) == [py |-> py, v |-> <<r, g, b, bri>>]

\* the tuple (r, g, b, brightness) returned by a map method
PyTuple4(r, g, b, bri) ==
    [py |-> "tuple", items |-> <<PyInt(r), PyInt(g), PyInt(b), PyInt(bri)>>]

\* a list of commands returned by a map_lights method
PyList(cmds) == [py |-> "list", items |-> cmds]

\* colors[0] of a list of commands, as the value it is
Item0(colors) ==
    LET c == colors.items[1]
    IN  [py |-> c.py, items |-> [i \in 1..Len(c.v) |-> PyInt(c.v[i])]]

NoValue == [py |-> "none", items |-> <<>>]

\* the commands of a returned value: the elements of a list of commands,
\* or the one command that a tuple or a flat list [r, g, b, bri] is
Commands(colors) ==
    IF colors.py = "none" THEN <<>>
    ELSE IF colors.py = "list" /\ Len(colors.items) > 0 /\ colors.items[1].py # "int"
    THEN [i \in 1..Len(colors.items) |-> colors.items[i].v]
    ELSE <<[i \in 1..Len(colors.items) |-> colors.items[i].v[1]]>>

\* the brightness of each command of a returned value
Brightness(colors) == [i \in 1..Len(Commands(colors)) |-> Commands(colors)[i][4]]

\* ------------------------------------------------------------------------
\* Mapper state: one record shape for every mapper class; a class uses the
\* fields its constructor sets
\* ------------------------------------------------------------------------
Blank(kind) ==
    [kind |-> kind, min_b |-> 0, max_b |-> 0, peak_decay |-> 0, gamma |-> 0,
     noise_gate |-> 0, max_step |-> 0, delay_frames |-> 0,
     peak |-> 0, peak_high |-> 0, prev_b1 |-> 0, prev_b2 |-> 0,
     last_rgb |-> <<0, 0, 0>>, history |-> <<>>,
     smoothed |-> 0, hue_offset |-> 0,
     last_energy |-> 0, threshold |-> 0, boost |-> 0, sens |-> 0,
     fmode |-> "none"]

\* the __init__ shared by the envelope-follower mappers
Envelope(kind, minb, maxb, decay, gamma, gate, step) ==
    [Blank(kind) EXCEPT !.min_b = minb, !.max_b = maxb, !.peak_decay = decay,
                        !.gamma = gamma, !.noise_gate = gate, !.max_step = step,
                        !.peak = Scale \div 5, !.peak_high = Scale \div 5,
                        !.prev_b1 = minb, !.prev_b2 = minb]

SimplePulseInit(minb, maxb, decay, gamma, gate, step) ==
    [Envelope("SimplePulse", minb, maxb, decay, gamma, gate, step)
        EXCEPT !.last_rgb = <<220, 120, 60>>]

StereoSplitInit(minb, maxb, decay, gamma, gate, step) ==
    Envelope("StereoSplit", minb, maxb, decay, gamma, gate, step)

ComplementaryPulseInit(minb, maxb, decay, gamma, gate, step) ==
    Envelope("ComplementaryPulse", minb, maxb, decay, gamma, gate, step)

BeatLeaderFollowerInit(minb, maxb, decay, gamma, gate, step, delay) ==
    [Envelope("BeatLeaderFollower", minb, maxb, decay, gamma, gate, step)
        EXCEPT !.delay_frames = delay, !.last_rgb = <<60, 255, 80>>]

FrequencyDanceInit(minb, maxb, decay, gamma, gate, step) ==
    Envelope("FrequencyDance", minb, maxb, decay, gamma, gate, step)

SpectrumGradientInit(minb, maxb, decay, gamma, gate, step) ==
    Envelope("SpectrumGradient", minb, maxb, decay, gamma, gate, step)

TurboInit(minb, maxb) ==
    [Blank("TurboSpectrumGradient") EXCEPT !.min_b = minb, !.max_b = maxb,
                                           !.smoothed = minb * Scale]

MultiLightInit == Blank("MultiLight")

FrequencyToRGBInit(fmode, boost) ==
    [Blank("FrequencyToRGB") EXCEPT !.fmode = fmode, !.boost = boost, !.min_b = 10]

PulseModeInit(sens) ==
    [Blank("PulseMode") EXCEPT !.sens = sens, !.min_b = 10, !.max_b = 100,
                               !.last_rgb = <<255, 200, 150>>]

StrobeModeInit(sens) ==
    [Blank("StrobeMode") EXCEPT
        !.threshold = IF sens > 0 THEN (1300 * Scale) \div sens ELSE 1300,
        !.min_b = 5, !.max_b = 100, !.last_rgb = <<255, 255, 255>>]

SpectrumPulseInit(emphasis, sens) ==
    [Blank("SpectrumPulse") EXCEPT !.boost = emphasis, !.sens = sens,
                                   !.min_b = 5, !.max_b = 100]

\* ------------------------------------------------------------------------
\* The envelope follower: decaying peak, gate, gamma curve, slew limit
\* ------------------------------------------------------------------------
\* self._peak = max(level, self._peak * self.peak_decay)
PeakUpdate(level, peak, decay) == Max(level, (peak * decay) \div Scale)

\* np.clip(level / (peak + 1e-6), 0.0, 1.0), truncated to 1/Scale
NormLevel(level, peak) ==
    Clip((level * Scale * Scale) \div (peak * Scale + 1), 0, Scale)

\* the brightness the level asks for, before the slew limit
EnvelopeTarget(s, level, peak, gamma) ==
    IF peak <= 0 \/ level * Scale < s.noise_gate * peak
    THEN s.min_b
    ELSE (s.min_b * Scale + Pow(NormLevel(level, peak), gamma) * (s.max_b - s.min_b))
            \div Scale

\* Slew with the step always taken in full and the result not clamped
Slew_FullStep(prev, target, step, minb, maxb) ==
    IF target >= prev THEN prev + step ELSE prev - step

\* Slew without the limit on the change
Slew_NoLimit(prev, target, step, minb, maxb) == Clip(target, minb, maxb)

\* delta = np.clip(target - prev, -step, step);
\* brightness = int(np.clip(prev + delta, min_b, max_b))
Slew(prev, target, step, minb, maxb) ==
    Clip(prev + Clip(target - prev, -step, step), minb, maxb)

\* int(wa/10 * a + wb/10 * b) of the colour blends
Blend(wa, a, wb, b) == (wa * a + wb * b) \div 10

BlendRGB(wa, base, wb, last) ==
    <<Blend(wa, base[1], wb, last[1]), Blend(wa, base[2], wb, last[2]),
      Blend(wa, base[3], wb, last[3])>>

\* ------------------------------------------------------------------------
\* The mappers. Each operator takes the mapper state and the call's
\* arguments and gives [st |-> the state after, out |-> the value returned]
\* ------------------------------------------------------------------------
\* SimplePulseMapper._pick_color
SimplePickColor(s, bass, mids, treble) ==
    LET base == IF bass >= mids /\ bass >= treble THEN <<255, 40, 40>>
                ELSE IF treble >= mids THEN <<50, 100, 255>>
                ELSE <<60, 255, 80>>
    IN  BlendRGB(8, base, 2, s.last_rgb)

SimplePulseMap(s, bass, mids, treble, amp) ==
    LET level  == Clip(amp, 0, Scale)
        peak   == PeakUpdate(level, s.peak, s.peak_decay)
        target == EnvelopeTarget(s, level, peak, s.gamma)
        bri    == Slew(s.prev_b1, target, s.max_step, s.min_b, s.max_b)
        rgb    == SimplePickColor(s, bass, mids, treble)
    IN  [st  |-> [s EXCEPT !.peak = peak, !.prev_b1 = bri, !.last_rgb = rgb],
         out |-> PyTuple4(rgb[1], rgb[2], rgb[3], bri)]

StereoSplitMapLights(s, bass, mids, treble, n) ==
    LET warm   == (6 * bass + 4 * mids) \div 10
        color1 == IF bass * 10 > mids * 12 THEN <<255, 60, 30>>
                  ELSE IF bass * 10 > mids * 8 THEN <<255, 120, 40>>
                  ELSE <<255, 200, 80>>
        cool   == (4 * mids + 6 * treble) \div 10
        color2 == IF treble * 10 > mids * 12 THEN <<80, 100, 255>>
                  ELSE IF treble * 10 > mids * 8 THEN <<80, 180, 255>>
                  ELSE <<100, 255, 200>>
        level1 == Clip(warm, 0, Scale)
        level2 == Clip(cool, 0, Scale)
        peak   == PeakUpdate(Max(level1, level2), s.peak, s.peak_decay)
        b1     == Slew(s.prev_b1, EnvelopeTarget(s, level1, peak, s.gamma),
                       s.max_step, s.min_b, s.max_b)
        b2     == Slew(s.prev_b2, EnvelopeTarget(s, level2, peak, s.gamma),
                       s.max_step, s.min_b, s.max_b)
    IN  [st  |-> [s EXCEPT !.peak = peak, !.prev_b1 = b1, !.prev_b2 = b2],
         out |-> PyList(<<Cmd("tuple", color1[1], color1[2], color1[3], b1),
                          Cmd("tuple", color2[1], color2[2], color2[3], b2)>>)]

ComplementaryPulseMapLights(s, bass, mids, treble, n) ==
    LET total == bass + mids + treble
        main  == IF bass >= mids /\ bass >= treble THEN <<255, 50, 50>>
                 ELSE IF treble >= mids THEN <<50, 100, 255>>
                 ELSE <<80, 255, 100>>
        comp  == <<255 - main[1], 255 - main[2], 255 - main[3]>>
        level == Clip(total \div 3, 0, Scale)
        peak  == PeakUpdate(level, s.peak, s.peak_decay)
        bmain == Slew(s.prev_b1, EnvelopeTarget(s, level, peak, s.gamma),
                      s.max_step, s.min_b, s.max_b)
        bcomp == Clip(s.max_b - (bmain - s.min_b), s.min_b, s.max_b)
    IN  [st  |-> [s EXCEPT !.peak = peak, !.prev_b1 = bmain],
         out |-> PyList(<<Cmd("tuple", main[1], main[2], main[3], bmain),
                          Cmd("tuple", comp[1], comp[2], comp[3], bcomp)>>)]

BeatLeaderFollowerMapLights(s, bass, mids, treble, n) ==
    LET total    == bass + mids + treble
        level    == Clip(total \div 3, 0, Scale)
        follower == IF bass >= mids /\ bass >= treble THEN <<255, 60, 60>>
                    ELSE IF treble >= mids THEN <<80, 120, 255>>
                    ELSE <<80, 255, 120>>
        rgb      == BlendRGB(7, follower, 3, s.last_rgb)
        peak     == PeakUpdate(level, s.peak, s.peak_decay)
        b1       == Slew(s.prev_b1, EnvelopeTarget(s, level, peak, s.gamma),
                         s.max_step, s.min_b, s.max_b)
        appended == Append(s.history, <<level, rgb[1], rgb[2], rgb[3]>>)
        hist     == IF Len(appended) > s.delay_frames THEN Tail(appended) ELSE appended
        delayed  == IF Len(hist) >= s.delay_frames
                    THEN hist[1] ELSE <<level, rgb[1], rgb[2], rgb[3]>>
        b2       == Slew(s.prev_b2, EnvelopeTarget(s, delayed[1], peak, 1100),
                         5, s.min_b, s.max_b)
    IN  [st  |-> [s EXCEPT !.peak = peak, !.prev_b1 = b1, !.prev_b2 = b2,
                           !.last_rgb = rgb, !.history = hist],
         out |-> PyList(<<Cmd("tuple", 255, 240, 220, b1),
                          Cmd("tuple", delayed[2], delayed[3], delayed[4], b2)>>)]

\* treble_weight / (bass_weight + treble_weight), 0.5 when both are 0
Dominance(bass, mids, treble) ==
    LET bw == 10 * bass + 3 * mids
        tw == 10 * treble + 3 * mids
    IN  IF bw + tw > 0 THEN (tw * Scale) \div (bw + tw) ELSE Scale \div 2

\* 1 - abs(dominance - 0.5) * 2
Balance(dom) ==
    Scale - 2 * (IF dom >= Scale \div 2 THEN dom - Scale \div 2 ELSE Scale \div 2 - dom)

FrequencyDanceMapLights(s, bass, mids, treble, n) ==
    LET total == bass + mids + treble
        dom   == Dominance(bass, mids, treble)
        c1r   == Clip((180 * Scale + (Scale - dom) * 75) \div Scale, 80, 255)
        c1g   == Clip((50 * Scale + Balance(dom) * 80) \div Scale, 50, 130)
        c1b   == Clip((50 * Scale + dom * 100) \div Scale, 50, 150)
        c2r   == Clip((80 * Scale + (Scale - dom) * 100) \div Scale, 50, 180)
        c2g   == Clip((80 * Scale + Balance(dom) * 80) \div Scale, 80, 160)
        c2b   == Clip((150 * Scale + dom * 105) \div Scale, 150, 255)
        level == Clip(total \div 3, 0, Scale)
        peak  == PeakUpdate(level, s.peak, s.peak_decay)
        base  == EnvelopeTarget(s, level, peak, s.gamma)
        range == base - s.min_b
        t1    == (s.min_b * Scale + range * (Scale - dom)) \div Scale
        t2    == (s.min_b * Scale + range * dom) \div Scale
        b1    == Slew(s.prev_b1, t1, s.max_step, s.min_b, s.max_b)
        b2    == Slew(s.prev_b2, t2, s.max_step, s.min_b, s.max_b)
    IN  [st  |-> [s EXCEPT !.peak = peak, !.prev_b1 = b1, !.prev_b2 = b2],
         out |-> PyList(<<Cmd("tuple", c1r, c1g, c1b, b1),
                          Cmd("tuple", c2r, c2g, c2b, b2)>>)]

\* SpectrumGradientMapper with one peak tracker for both fixtures
SpectrumGradientMapLights_SharedPeak(s, bass, mids, treble, n) ==
    LET low    == bass + (3 * mids) \div 10
        color1 == IF bass > mids THEN <<255, (40 * Scale + bass * 80) \div Scale, 30>>
                  ELSE <<255, (100 * Scale + mids * 100) \div Scale, 50>>
        high   == treble + (3 * mids) \div 10
        color2 == IF treble > mids
                  THEN <<(60 * Scale + treble * 40) \div Scale,
                         (80 * Scale + treble * 100) \div Scale, 255>>
                  ELSE <<(120 * Scale + mids * 80) \div Scale,
                         (80 * Scale + mids * 120) \div Scale, 255>>
        llow   == Clip(low, 0, Scale)
        lhigh  == Clip(high, 0, Scale)
        peak   == PeakUpdate(Max(llow, lhigh), s.peak, s.peak_decay)
        b1     == Slew(s.prev_b1, EnvelopeTarget(s, llow, peak, s.gamma),
                       s.max_step, s.min_b, s.max_b)
        b2     == Slew(s.prev_b2, EnvelopeTarget(s, lhigh, peak, s.gamma),
                       s.max_step, s.min_b, s.max_b)
    IN  [st  |-> [s EXCEPT !.peak = peak, !.peak_high = peak,
                           !.prev_b1 = b1, !.prev_b2 = b2],
         out |-> PyList(<<Cmd("tuple", color1[1], color1[2], color1[3], b1),
                          Cmd("tuple", color2[1], color2[2], color2[3], b2)>>)]

SpectrumGradientMapLights(s, bass, mids, treble, n) ==
    LET low    == bass + (3 * mids) \div 10
        color1 == IF bass > mids THEN <<255, (40 * Scale + bass * 80) \div Scale, 30>>
                  ELSE <<255, (100 * Scale + mids * 100) \div Scale, 50>>
        high   == treble + (3 * mids) \div 10
        color2 == IF treble > mids
                  THEN <<(60 * Scale + treble * 40) \div Scale,
                         (80 * Scale + treble * 100) \div Scale, 255>>
                  ELSE <<(120 * Scale + mids * 80) \div Scale,
                         (80 * Scale + mids * 120) \div Scale, 255>>
        llow   == Clip(low, 0, Scale)
        lhigh  == Clip(high, 0, Scale)
        plow   == PeakUpdate(llow, s.peak, s.peak_decay)
        phigh  == PeakUpdate(lhigh, s.peak_high, s.peak_decay)
        b1     == Slew(s.prev_b1, EnvelopeTarget(s, llow, plow, s.gamma),
                       s.max_step, s.min_b, s.max_b)
        b2     == Slew(s.prev_b2, EnvelopeTarget(s, lhigh, phigh, s.gamma),
                       s.max_step, s.min_b, s.max_b)
    IN  [st  |-> [s EXCEPT !.peak = plow, !.peak_high = phigh,
                           !.prev_b1 = b1, !.prev_b2 = b2],
         out |-> PyList(<<Cmd("tuple", color1[1], color1[2], color1[3], b1),
                          Cmd("tuple", color2[1], color2[2], color2[3], b2)>>)]

\* the map method of the dual mappers: colors = self.map_lights(.., 1); colors[0]
FirstOf(r) == [st |-> r.st, out |-> Item0(r.out)]

\* colorsys.hsv_to_rgb(h, s, v), every component a fraction of Scale
HsvToRgb(h, sat, v) ==
    IF sat = 0 THEN <<v, v, v>>
    ELSE LET i  == (h * 6) \div Scale
             f  == (h * 6) % Scale
             pp == (v * (Scale - sat)) \div Scale
             q  == (v * (Scale - (sat * f) \div Scale)) \div Scale
             t  == (v * (Scale - (sat * (Scale - f)) \div Scale)) \div Scale
             k  == i % 6
         IN  IF k = 0 THEN <<v, t, pp>>
             ELSE IF k = 1 THEN <<q, v, pp>>
             ELSE IF k = 2 THEN <<pp, v, t>>
             ELSE IF k = 3 THEN <<pp, q, v>>
             ELSE IF k = 4 THEN <<t, pp, v>>
             ELSE <<v, pp, q>>

\* colorsys.rgb_to_hsv(r, g, b), every component a fraction of Scale
RgbToHsv(r, g, b) ==
    LET maxc == Max(r, Max(g, b))
        minc == Min(r, Min(g, b))
    IN  IF minc = maxc THEN <<0, 0, maxc>>
        ELSE LET sat == ((maxc - minc) * Scale) \div maxc
                 rc  == ((maxc - r) * Scale) \div (maxc - minc)
                 gc  == ((maxc - g) * Scale) \div (maxc - minc)
                 bc  == ((maxc - b) * Scale) \div (maxc - minc)
                 h6  == IF r = maxc THEN bc - gc
                        ELSE IF g = maxc THEN 2 * Scale + rc - bc
                        ELSE 4 * Scale + gc - rc
             IN  <<((h6 + 6 * Scale) \div 6) % Scale, sat, maxc>>

\* int(x * 255) of a fraction x
To255(x) == (x * 255) \div Scale

\* the ceiling the source puts on the brightness target
TurboTargetCap == 255

\* TurboSpectrumGradient._get_rgb_brightness; dt is now - self.last_update in ms
TurboRgbBrightness(s, bass, mids, treble, amp, dt) ==
    LET speed   == 20 * Scale + 600 * bass
        moved   == s.hue_offset + (speed * dt) \div (Scale * Scale)
        hue     == IF moved > Scale THEN moved - Scale ELSE moved
        scream  == mids + (8 * treble) \div 10
        chorus  == scream * 10 > 8 * Scale
        plain   == s.min_b * Scale + amp * (s.max_b - s.min_b)
        boosted == IF chorus THEN (plain * 3) \div 2 ELSE plain
        target  == Min(boosted, TurboTargetCap * Scale)
        alpha   == IF target > s.smoothed THEN 3 ELSE 1
        smooth  == (s.smoothed * (10 - alpha) + target * alpha) \div 10
        rgb     == HsvToRgb(hue, IF chorus THEN (6 * Scale) \div 10 ELSE Scale, Scale)
    IN  [st  |-> [s EXCEPT !.hue_offset = IF chorus THEN hue + Scale \div 20 ELSE hue,
                           !.smoothed = smooth],
         rgb |-> <<To255(rgb[1]), To255(rgb[2]), To255(rgb[3])>>,
         bri |-> smooth \div Scale]

\* TurboSpectrumGradient.map returns the list [r, g, b, bri]
TurboMap(s, bass, mids, treble, amp, dt) ==
    LET r == TurboRgbBrightness(s, bass, mids, treble, amp, dt)
    IN  [st  |-> r.st,
         out |-> [py |-> "list",
                  items |-> <<PyInt(r.rgb[1]), PyInt(r.rgb[2]), PyInt(r.rgb[3]),
                              PyInt(r.bri)>>]]

TurboLocalColor(hsv, i, bri) ==
    LET h0  == hsv[1] + i * (Scale \div 20)
        h   == IF h0 > Scale THEN h0 - Scale ELSE h0
        rgb == HsvToRgb(h, hsv[2], hsv[3])
    IN  Cmd("list", To255(rgb[1]), To255(rgb[2]), To255(rgb[3]), bri)

TurboMapLights(s, bass, mids, treble, n, dt) ==
    LET r   == TurboRgbBrightness(s, bass, mids, treble, (bass + mids + treble) \div 3, dt)
        hsv == RgbToHsv((r.rgb[1] * Scale) \div 255, (r.rgb[2] * Scale) \div 255,
                        (r.rgb[3] * Scale) \div 255)
    IN  [st  |-> r.st,
         out |-> PyList([i \in 1..n |-> TurboLocalColor(hsv, i - 1, r.bri)])]

\* int(np.clip(10 + x * 90, 0, 100))
MultiBrightness(x) == Clip((10 * Scale + x * 90) \div Scale, 0, 100)

\* the command MultiLightMapper.map_lights appends for light i (from 0)
MultiLightColor(i, bass, mids, treble) ==
    IF i = 0 THEN Cmd("tuple", To255(bass), (bass * 50) \div Scale,
                      (bass * 200) \div Scale, MultiBrightness(bass))
    ELSE IF i = 1 THEN Cmd("tuple", (mids * 200) \div Scale, To255(mids),
                           (mids * 50) \div Scale, MultiBrightness(mids))
    ELSE IF i = 2 THEN Cmd("tuple", (treble * 50) \div Scale, (treble * 200) \div Scale,
                           To255(treble), MultiBrightness(treble))
    ELSE LET avg == (bass + mids + treble) \div 3
         IN  IF i % 3 = 0
             THEN Cmd("tuple", To255(bass), To255(treble), To255(mids), MultiBrightness(avg))
             ELSE IF i % 3 = 1
             THEN Cmd("tuple", To255(mids), To255(bass), To255(treble), MultiBrightness(avg))
             ELSE Cmd("tuple", To255(treble), To255(mids), To255(bass), MultiBrightness(avg))

\* MultiLightMapLights without the loop over the lights after the third
MultiLightMapLights_NoLoop(s, bass, mids, treble, n) ==
    [st |-> s,
     out |-> PyList([i \in 1..Min(Max(n, 0), 3) |-> MultiLightColor(i - 1, bass, mids, treble)])]

\* the three guarded appends, then the loop over range(3, num_lights)
MultiLightMapLights(s, bass, mids, treble, n) ==
    LET head == [i \in 1..Min(Max(n, 0), 3) |-> MultiLightColor(i - 1, bass, mids, treble)]
        rest == [i \in 1..Max(n - 3, 0) |-> MultiLightColor(i + 2, bass, mids, treble)]
    IN  [st |-> s, out |-> PyList(head \o rest)]

\* int(np.clip(min_brightness + x * 90 * brightness_boost, 0, 100))
BoostBrightness(s, x) ==
    Clip((s.min_b * Scale * Scale + x * 90 * s.boost) \div (Scale * Scale), 0, 100)

FrequencyToRGBMap(s, bass, mids, treble, amp) ==
    LET avg == (bass + mids + treble) \div 3
    IN  IF s.fmode = "energy"
        THEN LET rgb == IF avg * 2 > Scale
                        THEN <<To255(avg), (165 * avg) \div Scale,
                               (50 * (Scale - avg)) \div Scale>>
                        ELSE <<(128 * avg) \div Scale, (50 * avg) \div Scale,
                               To255(Scale - avg)>>
             IN  [st |-> s, out |-> PyTuple4(rgb[1], rgb[2], rgb[3], BoostBrightness(s, avg))]
        ELSE IF s.fmode = "rainbow"
        THEN LET dom == Max(bass, Max(mids, treble))
                 rgb == IF bass = dom
                        THEN <<To255(dom), (50 * dom) \div Scale, (200 * dom) \div Scale>>
                        ELSE IF mids = dom
                        THEN <<(200 * dom) \div Scale, To255(dom), (50 * dom) \div Scale>>
                        ELSE <<(50 * dom) \div Scale, (200 * dom) \div Scale, To255(dom)>>
             IN  [st |-> s, out |-> PyTuple4(rgb[1], rgb[2], rgb[3], BoostBrightness(s, dom))]
        ELSE [st |-> s,
              out |-> PyTuple4(Clip(To255(Pow(bass, 1500)), 0, 255),
                               Clip(To255(Pow(mids, 1500)), 0, 255),
                               Clip(To255(Pow(treble, 1500)), 0, 255),
                               BoostBrightness(s, amp))]

\* int(np.clip(min + energy ** power * (max - min), min, max))
PowerBrightness(s, energy, power) ==
    Clip((s.min_b * Scale + Pow(energy, power) * (s.max_b - s.min_b)) \div Scale,
         s.min_b, s.max_b)

PulseModeMap(s, bass, mids, treble, amp) ==
    LET power == IF s.sens > 0 THEN (1500 * Scale) \div s.sens ELSE 1500
    IN  [st |-> s,
         out |-> PyTuple4(s.last_rgb[1], s.last_rgb[2], s.last_rgb[3],
                          PowerBrightness(s, amp, power))]

StrobeModeMap(s, bass, mids, treble, amp) ==
    LET burst == (IF s.last_energy * 100 > Scale
                  THEN amp * Scale > s.threshold * s.last_energy
                  ELSE Scale > s.threshold)
                 \/ amp * 10 > 7 * Scale
        low   == Clip((amp * 40) \div Scale, s.min_b, (s.max_b * 3) \div 10)
        bri   == IF burst THEN s.max_b ELSE Clip(low, s.min_b, s.max_b)
    IN  [st  |-> [s EXCEPT !.last_energy = (amp * 7 + s.last_energy * 3) \div 10],
         out |-> PyTuple4(s.last_rgb[1], s.last_rgb[2], s.last_rgb[3], bri)]

SpectrumPulseMap(s, bass, mids, treble, amp) ==
    LET base   == IF bass >= mids /\ bass >= treble THEN <<200, 50, 150>>
                  ELSE IF treble > mids THEN <<50, 150, 255>>
                  ELSE <<255, 180, 50>>
        dim    == <<(base[1] * 8) \div 10, (base[2] * 8) \div 10, (base[3] * 8) \div 10>>
        bark   == 2 * mids + (8 * treble) \div 10
        flash  == bass * 10 <= 3 * Scale /\ bark * 100 > 35 * Scale
        raw    == IF bass * 10 > 3 * Scale THEN bass
                  ELSE IF flash THEN Min((bark * 5) \div 2, Scale)
                  ELSE bark \div 2
        energy == (raw * 7 + amp * 3) \div 10
        power  == IF s.sens > 0 THEN (Scale * Scale * Scale) \div (s.boost * s.sens)
                               ELSE (Scale * Scale) \div s.boost
        rgb    == IF flash THEN <<255, 255, 220>> ELSE dim
    IN  [st |-> s,
         out |-> PyTuple4(rgb[1], rgb[2], rgb[3], PowerBrightness(s, energy, power))]

\* ------------------------------------------------------------------------
\* The mapper family behind one interface
\* ------------------------------------------------------------------------
DualKinds ==
    {"StereoSplit", "ComplementaryPulse", "BeatLeaderFollower", "FrequencyDance",
     "SpectrumGradient"}

EnvelopeKinds == DualKinds \cup {"SimplePulse"}

\* hasattr(mapper, "map_lights")
HasMapLights(s) == s.kind \in DualKinds \cup {"MultiLight", "TurboSpectrumGradient"}

\* hasattr(mapper, "map")
HasMap(s) == s.kind # "MultiLight"

\* mapper.map_lights(bass, mids, treble, n)
MapLights(s, bass, mids, treble, n, dt) ==
    IF s.kind = "StereoSplit" THEN StereoSplitMapLights(s, bass, mids, treble, n)
    ELSE IF s.kind = "ComplementaryPulse"
    THEN ComplementaryPulseMapLights(s, bass, mids, treble, n)
    ELSE IF s.kind = "BeatLeaderFollower"
    THEN BeatLeaderFollowerMapLights(s, bass, mids, treble, n)
    ELSE IF s.kind = "FrequencyDance" THEN FrequencyDanceMapLights(s, bass, mids, treble, n)
    ELSE IF s.kind = "SpectrumGradient"
    THEN SpectrumGradientMapLights(s, bass, mids, treble, n)
    ELSE IF s.kind = "TurboSpectrumGradient" THEN TurboMapLights(s, bass, mids, treble, n, dt)
    ELSE MultiLightMapLights(s, bass, mids, treble, n)

\* mapper.map(bass, mids, treble, amplitude)
Map(s, bass, mids, treble, amp, dt) ==
    IF s.kind \in DualKinds THEN FirstOf(MapLights(s, bass, mids, treble, 1, dt))
    ELSE IF s.kind = "SimplePulse" THEN SimplePulseMap(s, bass, mids, treble, amp)
    ELSE IF s.kind = "TurboSpectrumGradient" THEN TurboMap(s, bass, mids, treble, amp, dt)
    ELSE IF s.kind = "PulseMode" THEN PulseModeMap(s, bass, mids, treble, amp)
    ELSE IF s.kind = "StrobeMode" THEN StrobeModeMap(s, bass, mids, treble, amp)
    ELSE IF s.kind = "SpectrumPulse" THEN SpectrumPulseMap(s, bass, mids, treble, amp)
    ELSE FrequencyToRGBMap(s, bass, mids, treble, amp)

\* the --mode values with a branch of their own, and the default
Modes ==
    {"multi", "pulse", "strobe", "spectrum_pulse", "spectrum_pulse_v3", "stereo_split",
     "complementary_pulse", "beat_leader_follower", "frequency_dance",
     "spectrum_gradient", "frequency_bands", "energy", "rainbow"}

\* the mapper MusicVisualizer.__init__ builds for a mode and a fixture count
\* (brightness_boost 1.5 and sensitivity 1.0, the defaults of the command line)
MapperForMode(mode, n) ==
    IF mode = "multi" /\ n > 1 THEN MultiLightInit
    ELSE IF mode = "pulse" THEN PulseModeInit(Scale)
    ELSE IF mode = "strobe" THEN StrobeModeInit(Scale)
    ELSE IF mode = "spectrum_pulse" THEN SpectrumPulseInit(1500, Scale)
    ELSE IF mode = "spectrum_pulse_v3" THEN SimplePulseInit(10, 100, 985, 900, 50, 8)
    ELSE IF mode = "stereo_split" THEN StereoSplitInit(10, 70, 985, 900, 50, 8)
    ELSE IF mode = "complementary_pulse" THEN ComplementaryPulseInit(15, 70, 985, 900, 50, 8)
    ELSE IF mode = "beat_leader_follower"
    THEN BeatLeaderFollowerInit(10, 70, 985, 700, 50, 15, 4)
    ELSE IF mode = "frequency_dance" THEN FrequencyDanceInit(15, 70, 985, 900, 50, 8)
    ELSE IF mode = "spectrum_gradient" THEN TurboInit(10, 100)
    ELSE FrequencyToRGBInit(mode, 1500)

\* every mapper a session can hold: the visualizer's, the classes built
\* with the defaults of their constructors, and the strobe of --sensitivity 2
MapperConfigs ==
    {MapperForMode(m, n) : m \in Modes, n \in {1, 2}}
    \cup {SimplePulseInit(10, 70, 985, 900, 50, 8),
          SpectrumGradientInit(10, 70, 985, 900, 50, 8),
          StrobeModeInit(2 * Scale)}

\* milliseconds between two calls of a mapper: the length of a chunk
Dts == {50}

\* the state after k loud bass frames, one chunk apart
RECURSIVE Warm(_, _)
Warm(s, k) ==
    IF k = 0 THEN s
    ELSE IF HasMap(s) THEN Warm(Map(s, Scale, 0, 0, Scale, 50).st, k - 1)
    ELSE Warm(MapLights(s, Scale, 0, 0, 2, 50).st, k - 1)

\* mapper.map on a silent frame: every band and the amplitude 0
SilentStep(s) == Map(s, 0, 0, 0, 0, 50)

\* what the k-th of k consecutive silent calls returns, k >= 1
RECURSIVE Silent(_, _)
Silent(s, k) == IF k <= 1 THEN SilentStep(s) ELSE Silent(SilentStep(s).st, k - 1)

\* the brightness the k-th of k consecutive silent calls emits
SilentBrightness(s, k) == Brightness(Silent(s, k).out)[1]

\* ------------------------------------------------------------------------
\* The relay: queue.Queue(maxsize=1)
\* ------------------------------------------------------------------------
QueueMaxsize == 1

\* Queue.get: an item, or queue.Empty when it may not wait, or a wait
QueueGet(q, block) ==
    IF q # <<>> THEN [res |-> "item", q |-> Tail(q)]
    ELSE IF block THEN [res |-> "wait", q |-> q]
    ELSE [res |-> "Empty", q |-> q]

\* Queue.put: stored, or queue.Full when it may not wait, or a wait
QueuePut(q, x, block) ==
    IF Len(q) < QueueMaxsize THEN [res |-> "ok", q |-> Append(q, x)]
    ELSE IF block THEN [res |-> "wait", q |-> q]
    ELSE [res |-> "Full", q |-> q]

\* the producer's get that waits for an item: get() for get_nowait()
EnqueueDrain_Blocking(q) == QueueGet(q, TRUE)

\* the producer's get left out: nothing is taken from the relay
EnqueueDrain_Skip(q) == [res |-> "Empty", q |-> q]

\* self.color_queue.get_nowait() of _enqueue_color_replace
EnqueueDrain(q) == QueueGet(q, FALSE)

\* self.color_queue.put_nowait(colors) of _enqueue_color_replace
EnqueuePut(q, x) == QueuePut(q, x, FALSE)

\* a bare "except: pass": whatever was raised, the code goes on
BareExcept(exc) == "pass"

\* ------------------------------------------------------------------------
\* The dispatch loop's fan-out
\* ------------------------------------------------------------------------
\* r, g, b, bri = col succeeds on a sequence of four
Unpackable(col) == col.py # "int" /\ Len(col.v) = 4

Task(id, light, cmd) == [id |-> id, light |-> light, cmd |-> cmd]

\* the lights before the first command of a list that does not unpack
RECURSIVE GoodPrefix(_, _)
GoodPrefix(items, i) ==
    IF i > Len(items) \/ ~Unpackable(items[i]) THEN i - 1 ELSE GoodPrefix(items, i + 1)

\* the tasks the loop submits for a command set taken from the relay, in
\* order, and whether the unpacking raised before the last of them
FanOut(colors, n) ==
    LET v == colors.val
    IN  IF v.py = "list" /\ Len(v.items) = n
        THEN LET k == GoodPrefix(v.items, 1)
             IN  [tasks |-> [i \in 1..k |-> Task(colors.id, i, v.items[i].v)],
                  exc   |-> k < n]
        ELSE IF v.py = "list"
        THEN IF Len(v.items) > 0 /\ Unpackable(v.items[1])
             THEN [tasks |-> [i \in 1..n |-> Task(colors.id, i, v.items[1].v)],
                   exc   |-> FALSE]
             ELSE [tasks |-> <<>>, exc |-> TRUE]
        ELSE IF Len(v.items) = 4
        THEN [tasks |-> [i \in 1..n |->
                           Task(colors.id, i, [k \in 1..4 |-> v.items[k].v[1]])],
              exc   |-> FALSE]
        ELSE [tasks |-> <<>>, exc |-> TRUE]

\* _safe_set_color: what the future of a send holds when the send is over
SafeSetColor(raised) == "value"

\* f.result(timeout=0.5) outside any try: a timeout or an exception of the
\* future leaves the loop
ResultHandler_NoExcept(outcome) ==
    IF outcome = "value" THEN "continue" ELSE "propagate"

\* the try / except around f.result(timeout=0.5): value, exception or
\* timeout, the loop goes on to the next future
ResultHandler(outcome) == IF BareExcept(outcome) = "pass" THEN "continue" ELSE "propagate"

\* the loop condition with the stop signal not read
LoopContinues_Always(stop) == TRUE

\* while not self._stop_event.is_set()
LoopContinues(stop) == ~stop

\* ------------------------------------------------------------------------
\* The producer: MusicVisualizer._process_audio_chunk
\* ------------------------------------------------------------------------
min_update_interval == 35

\* milliseconds a tick of the clock advances
TickMs == 20
\* chunks of audio the producer processes
MaxChunks == 2
\* largest number of fixtures of a session
MaxFixtures == 2

dual_modes ==
    {"multi", "stereo_split", "complementary_pulse", "beat_leader_follower",
     "frequency_dance", "spectrum_gradient"}

\* the call _process_audio_chunk makes on the mapper
ChunkColors(s, mode, n, f, dt) ==
    IF mode \in dual_modes /\ n > 1 /\ HasMapLights(s)
    THEN [r |-> MapLights(s, f[1], f[2], f[3], n, dt), n |-> n]
    ELSE [r |-> Map(s, f[1], f[2], f[3], f[4], dt), n |-> 0]

\* now - self._last_update_time >= self.min_update_interval
ThrottleOpen(since) == since >= min_update_interval

\* the frame of a playback: a loud chorus
PlayFrames == {<<Scale, Scale, Scale, Scale>>}

\* ------------------------------------------------------------------------
\* The band analyzer: AudioAnalyzer of audio_analysis.py
\* ------------------------------------------------------------------------
\* self.gain_decay = 0.995 and smoothing = 0.3, in thousandths
gain_decay == 995
smoothing == 300

\* band energies and running maxima are kept in millionths, so that a long
\* decay loses nothing that matters; normalised and smoothed values are in
\* thousandths like every level
Fine == 10 ^ 6

Bands == {"bass", "mids", "treble"}

\* a frame is known to the analyzer by the mean FFT magnitude of each band:
\* raw energies >= 0, not bounded by 1; an all-zero frame has all three 0
RawFrame(bass, mids, treble) == [bass |-> bass, mids |-> mids, treble |-> treble]

ZeroFrame == RawFrame(0, 0, 0)

\* AudioAnalyzer.__init__
AnalyzerInit ==
    [max      |-> [b \in Bands |-> Fine],
     smoothed |-> [b \in Bands |-> 0]]

\* self.max_bass * self.gain_decay
DecayMax(m) == (m * gain_decay) \div Scale

\* the running maximum only decayed, the frame's energy not looked at
UpdateMax_DecayOnly(raw, m) == DecayMax(m)

\* self.max_bass = max(bass, self.max_bass * self.gain_decay)
UpdateMax(raw, m) == Max(raw, DecayMax(m))

\* bass / self.max_bass if self.max_bass > 0 else 0
Normalise(raw, m) == IF m > 0 THEN (raw * Scale) \div m ELSE 0

\* the smoothed value replaced by the normalised energy: no memory
Smooth_NoMemory(norm, prev) == Clip(norm, 0, Scale)

\* smoothing * norm + (1 - smoothing) * smoothed, then np.clip(., 0.0, 1.0)
Smooth(norm, prev) ==
    Clip((smoothing * norm + (Scale - smoothing) * prev) \div Scale, 0, Scale)

\* AudioAnalyzer.analyze from the band energies on: the analyzer afterwards
\* and the tuple it returns
Analyze(a, raw) ==
    LET mx == [b \in Bands |-> UpdateMax(raw[b], a.max[b])]
        sm == [b \in Bands |-> Smooth(Normalise(raw[b], mx[b]), a.smoothed[b])]
    IN  [st  |-> [max |-> mx, smoothed |-> sm],
         out |-> sm]

\* the analyzer after k frames of silence (a state silence no longer
\* changes is the state after any number of further silent frames)
RECURSIVE Quiet(_, _)
Quiet(a, k) ==
    IF k = 0 THEN a
    ELSE LET next == Analyze(a, ZeroFrame).st
         IN  IF next = a THEN a ELSE Quiet(next, k - 1)

\* frames of silence in a block of a pause
PauseBlock == 50

\* the analyzer after a pause of j blocks of silence
RECURSIVE Pause(_, _)
Pause(a, j) ==
    IF j = 0 THEN a
    ELSE LET next == Quiet(a, PauseBlock)
         IN  IF next = a THEN a ELSE Pause(next, j - 1)

\* ------------------------------------------------------------------------
\* The real-time visualizer (tidal_realtime.py): the mode selector and the
\* cycle that runs it.  Times are in ms, crest factors and levels in 1/Scale.
\* ------------------------------------------------------------------------
THROTTLE_TIME == 35
SILENCE_THRESHOLD == 5

\* len(self.crest_factor_history) > 40
CrestWindow == 40

\* time.time() - self.last_mode_switch > 3.0
SwitchInterval == 3000

\* avg_crest > 3.0 / avg_crest < 2.8
CrestHigh == 3000
CrestLow == 2800

RtModes == {"spectrum_pulse", "spectrum_gradient"}

\* a clock that is only compared with `limit` stops one past it
Elapse(clock, dt, limit) == Min(clock + dt, limit + 1)

RECURSIVE SumSeq(_)
SumSeq(h) == IF h = <<>> THEN 0 ELSE Head(h) + SumSeq(Tail(h))

\* a window that refuses the new sample once it is full
Sample_KeepOldest(h, crest) == IF Len(h) < CrestWindow THEN Append(h, crest) ELSE h

\* append(crest), then pop(0) when the window is over its length
Sample(h, crest) ==
    LET a == Append(h, crest)
    IN  IF Len(a) > CrestWindow THEN Tail(a) ELSE a

\* the mode a window asks for, average crest = sum / len
NewMode_NoHysteresis(cur, h) ==
    IF SumSeq(h) > CrestHigh * Len(h) THEN "spectrum_pulse" ELSE "spectrum_gradient"

NewMode(cur, h) ==
    IF SumSeq(h) > CrestHigh * Len(h) THEN "spectrum_pulse"
    ELSE IF SumSeq(h) < CrestLow * Len(h) THEN "spectrum_gradient"
    ELSE cur

SwitchAllowed_Always(since) == TRUE

SwitchAllowed(since) == since > SwitchInterval

\* RealTimeVisualizer.__init__ for n fixtures; _last_update = 0 is long ago.
\* sinceSwitch, sinceUpdate and sinceTurbo are the time since last_mode_switch,
\* _last_update and the gradient mapper's last_update; sent, sampled, evaluated,
\* switched and gap record what the last cycle did
RtInit(n) ==
    [current_mode |-> "spectrum_gradient",
     crest_factor_history |-> <<>>,
     is_silent |-> FALSE,
     mappers |-> [spectrum_pulse |-> SpectrumPulseInit((3 * Scale) \div 2, Scale),
                  spectrum_gradient |-> TurboInit(10, 100)],
     lights |-> n,
     sinceSwitch |-> 0,
     sinceUpdate |-> THROTTLE_TIME + 1,
     sinceTurbo |-> 0,
     sent |-> <<>>, sampled |-> FALSE, evaluated |-> FALSE, switched |-> FALSE,
     gap |-> 0]

\* _auto_dj_logic on a chunk with the given crest factor
AutoDj(v, crest) ==
    LET h     == Sample(v.crest_factor_history, crest)
        eval  == SwitchAllowed(v.sinceSwitch)
        new   == IF eval THEN NewMode(v.current_mode, h) ELSE v.current_mode
        moved == new # v.current_mode
    IN  [v EXCEPT !.crest_factor_history = h,
                  !.current_mode = new,
                  !.sinceSwitch = IF moved THEN 0 ELSE @,
                  !.gap = IF moved THEN v.sinceSwitch ELSE @,
                  !.sampled = TRUE, !.evaluated = eval, !.switched = moved]

\* self.mappers.get(self.current_mode, self.mappers["spectrum_gradient"])
RtMapper(v) ==
    IF v.current_mode = "spectrum_pulse" THEN v.mappers.spectrum_pulse
    ELSE v.mappers.spectrum_gradient

\* the visualizer after its current mapper returned r, and what it returned
Mapped(v, r) ==
    [st  |-> IF v.current_mode = "spectrum_pulse"
             THEN [v EXCEPT !.mappers.spectrum_pulse = r.st]
             ELSE [v EXCEPT !.mappers.spectrum_gradient = r.st, !.sinceTurbo = 0],
     out |-> r.out]

\* the mapper call of _process_audio, on the mapper of the current mode
RtMap(v, chunk) ==
    Mapped(v, IF HasMapLights(RtMapper(v))
              THEN MapLights(RtMapper(v), chunk.bands[1], chunk.bands[2],
                             chunk.bands[3], v.lights, v.sinceTurbo)
              ELSE Map(RtMapper(v), chunk.bands[1], chunk.bands[2], chunk.bands[3],
                       chunk.rms * 5, v.sinceTurbo))

\* the throttle of _process_audio on the colours m.out of the visualizer m.st
Throttled(m) ==
    IF m.st.sinceUpdate >= THROTTLE_TIME
    THEN [m.st EXCEPT !.sent = <<m.out>>, !.sinceUpdate = 0]
    ELSE m.st

\* a silent branch that sends the blackout on every frame of the run
Blackout_EveryFrame(v) ==
    [v EXCEPT !.sent = <<PyTuple4(0, 0, 0, 0)>>, !.is_silent = TRUE]

\* the silent branch of _process_audio
Blackout(v) ==
    IF ~v.is_silent
    THEN [v EXCEPT !.sent = <<PyTuple4(0, 0, 0, 0)>>, !.is_silent = TRUE]
    ELSE v

\* _process_audio on a chunk that arrives dt after the one before it; `sent`
\* lists the command sets handed to _send_colors by this call
ProcessAudio(v0, chunk, dt) ==
    LET v == [v0 EXCEPT !.sinceSwitch = Elapse(@, dt, SwitchInterval),
                        !.sinceUpdate = Elapse(@, dt, THROTTLE_TIME),
                        !.sinceTurbo = Elapse(@, dt, SwitchInterval),
                        !.sent = <<>>, !.sampled = FALSE, !.evaluated = FALSE,
                        !.switched = FALSE]
    IN  IF chunk.rms < SILENCE_THRESHOLD
        THEN Blackout(v)
        ELSE Throttled(RtMap(AutoDj([v EXCEPT !.is_silent = FALSE], chunk.crest), chunk))

\* a chunk: its RMS amplitude, the crest factor of its bass and its bands
Chunk(rms, crest, bands) == [rms |-> rms, crest |-> crest, bands |-> bands]

\* k more cycles on chunks of one kind, one every dt
RECURSIVE Cycles(_, _, _, _)
Then(v, next, chunk, dt, k) == IF next = v THEN v ELSE Cycles(next, chunk, dt, k)

Cycles(v, chunk, dt, k) ==
    IF k = 0 THEN v ELSE Then(v, ProcessAudio(v, chunk, dt), chunk, dt, k - 1)

\* ------------------------------------------------------------------------
\* The fixture client (wiz_control.py)
\* ------------------------------------------------------------------------
\* the dimming and colour ranges of setPilot
DimmingMin == 10
DimmingMax == 100
ChannelMax == 255

\* sock.settimeout(2.0) of the discovery branch, ms
DiscoverWait == 2000

\* brightness -> dimming without the 8-bit rescale
Dimming_NoRescale(brightness) == Max(DimmingMin, Min(DimmingMax, brightness))

\* int((brightness / 255) * 100) when brightness > 100, then the clamp
Dimming(brightness) ==
    LET scaled == IF brightness > DimmingMax
                  THEN (brightness * 100) \div ChannelMax
                  ELSE brightness
    IN  Max(DimmingMin, Min(DimmingMax, scaled))

\* max(0, min(255, int(x)))
Channel(x) == Max(0, Min(ChannelMax, x))

\* the message of a call; `to` is the fixture's address or the broadcast one
Datagram(method, params, to) == [method |-> method, params |-> params, to |-> to]

NoParams == [r |-> 0, g |-> 0, b |-> 0, dimming |-> 0, state |-> FALSE]

\* the params of set_color(r, g, b, brightness)
PilotParams(r, g, b, brightness) ==
    [NoParams EXCEPT !.r = Channel(r), !.g = Channel(g), !.b = Channel(b),
                     !.dimming = Dimming(brightness)]

\* the method and the wait_for_response a client method passes to send_command
MethodOf(op) ==
    IF op = "set_color" THEN "setPilot"
    ELSE IF op = "set_state" THEN "setState"
    ELSE "getPilot"

WaitFor_Always(op) == TRUE

WaitFor(op) == op # "set_color"

\* `if self.ip:`
Addressed(ip) == ip # ""

\* json.loads(response.decode()) succeeds
Parses(payload) == payload # "garbage"

\* what send_command returns
Success == [kind |-> "success", lights |-> <<>>, payload |-> "", error |-> ""]
ErrorValue(msg) == [Success EXCEPT !.kind = "error", !.error = msg]
Parsed(payload) == [Success EXCEPT !.kind = "json", !.payload = payload]
Lights(found) == [Success EXCEPT !.kind = "lights", !.lights = found]
Raised(what) == [Success EXCEPT !.kind = "raised", !.error = what]
NoResult == [Success EXCEPT !.kind = "none"]

\* the body of discovery's loop on a response that parses
Collect_NoDedupe(lights, addr, payload) ==
    Append(lights, [ip |-> addr, response |-> payload])

Collect(lights, addr, payload) ==
    IF \E i \in 1..Len(lights) : lights[i].ip = addr
    THEN lights
    ELSE Append(lights, [ip |-> addr, response |-> payload])

\* ------------------------------------------------------------------------
\* State
\* ------------------------------------------------------------------------
VARIABLES
    ms,           \* the mapper object of the session
    out,          \* what its last call returned (current_color)
    prevBri,      \* the brightness the call before returned, per fixture
    calls,        \* calls made so far
    callN,        \* num_lights of the last call; 0 for map
    mode,         \* MusicVisualizer.mode
    nLights,      \* len(self.lights)
    color_queue,  \* the relay
    stop_event,   \* self._stop_event
    prodPc,       \* where the audio loop is
    pending,      \* the command set _enqueue_color_replace is handing over
    chunks,       \* chunks processed
    sinceUpdate,  \* now - _last_update_time, up to min_update_interval
    workerPc,     \* where _light_update_worker is
    colors,       \* the command set the worker took
    futures,      \* the futures the worker has still to wait for
    poolQueue,    \* work items of the executor not yet started
    running,      \* work items a worker thread is running
    poolShutdown, \* the executor has been shut down
    raisedFutures,\* futures that hold an exception
    stopPc,       \* where stop() is
    sinceFanout,  \* time since the last fan-out, up to min_update_interval
    lastGap,      \* time between the last two fan-outs
    nFanouts,     \* fan-outs so far
    lastEnqueued, \* id of the last command set handed to the relay
    dropped,      \* ids the producer took back out of the relay
    taken,        \* ids the worker took from the relay
    submitted,    \* <<id, light>> of every task submitted to the executor
    trouble       \* ids with a send that raised or was not done in time

VARIABLES
    an,           \* the AudioAnalyzer: running maxima and smoothed bands
    anPrev,       \* the analyzer before its last analyze call
    anRaw,        \* the band energies of the last frame analysed
    anOut,        \* what the last analyze call returned
    anFrames      \* frames analysed

anVars == <<an, anPrev, anRaw, anOut, anFrames>>

VARIABLES
    rt,           \* the RealTimeVisualizer and the clocks it reads
    rtPrev,       \* the same before the last cycle
    rtChunk,      \* the chunk of the last cycle
    rtCycles,     \* cycles run so far
    rtSwitches    \* mode changes so far

rtVars == <<rt, rtPrev, rtChunk, rtCycles, rtSwitches>>

VARIABLES
    wizIp,        \* WizLight.ip, "" for a client built without one
    wizPc,        \* where send_command is: idle, recv, collect, done
    wizOp,        \* the client method that was called
    wizArgs,      \* the (r, g, b, brightness) of a set_color call
    wizSent,      \* the datagrams sent
    wizLights,    \* the list discovery is building
    wizHeard,     \* the datagrams recvfrom has returned, as <<address, payload>>
    wizElapsed,   \* time from the broadcast to the last return of recvfrom, ms
    wizResult     \* what the call returned

wizVars ==
    <<wizIp, wizPc, wizOp, wizArgs, wizSent, wizLights, wizHeard, wizElapsed, wizResult>>

VARIABLES
    api,          \* the request the API server handled last and its answer
    boot          \* the visualizer command that was run last and how it went

apiVars == <<api, boot>>

VARIABLES
    audio,        \* total_samples, sample_rate and loop of a MusicVisualizer
    current_position, \* MusicVisualizer.current_position
    playPc,       \* where start() is: loop, ended, raised
    chunk,        \* the number of samples of the chunk processed last
    played        \* chunks processed so far

playVars == <<audio, current_position, playPc, chunk, played>>

extVars == <<anVars, rtVars, wizVars, apiVars, playVars>>

mapVars == <<ms, out, prevBri, calls, callN>>

pipeVars ==
    <<mode, nLights, color_queue, stop_event, prodPc, pending, chunks, sinceUpdate,
      workerPc, colors, futures, poolQueue, running, poolShutdown, raisedFutures,
      stopPc, sinceFanout, lastGap, nFanouts, lastEnqueued, dropped, taken,
      submitted, trouble>>

vars == <<mapVars, pipeVars, extVars>>

NoColors == [id |-> 0, val |-> NoValue]

\* MusicVisualizer.__init__ after the mapper is chosen
PipeInit ==
    /\ color_queue = <<>>
    /\ stop_event = FALSE
    /\ prodPc = "idle"
    /\ pending = NoColors
    /\ chunks = 0
    /\ sinceUpdate = min_update_interval
    /\ workerPc = "loop"
    /\ colors = NoColors
    /\ futures = <<>>
    /\ poolQueue = <<>>
    /\ running = {}
    /\ poolShutdown = FALSE
    /\ raisedFutures = {}
    /\ stopPc = "idle"
    /\ sinceFanout = min_update_interval
    /\ lastGap = min_update_interval
    /\ nFanouts = 0
    /\ lastEnqueued = 0
    /\ dropped = {}
    /\ taken = {}
    /\ submitted = {}
    /\ trouble = {}

\* an analyzer just built
AnIdle ==
    /\ an = AnalyzerInit
    /\ anPrev = AnalyzerInit
    /\ anRaw = ZeroFrame
    /\ anOut = AnalyzerInit.smoothed
    /\ anFrames = 0

\* no real-time visualizer has been built
RtIdle ==
    /\ rt = RtInit(1)
    /\ rtPrev = rt
    /\ rtChunk = Chunk(0, 0, <<0, 0, 0>>)
    /\ rtCycles = 0
    /\ rtSwitches = 0

\* a client on which nothing has been called
WizIdle(ip) ==
    /\ wizIp = ip
    /\ wizPc = "idle"
    /\ wizOp = "none"
    /\ wizArgs = <<0, 0, 0, 0>>
    /\ wizSent = <<>>
    /\ wizLights = <<>>
    /\ wizHeard = <<>>
    /\ wizElapsed = 0
    /\ wizResult = NoResult

\* no request has been handled and no command run
NoRequest == [op |-> "none", found |-> NoResult, status |-> 0, detail |-> "", sent |-> <<>>]

NoBoot == [prog |-> "none", found |-> NoResult, exit |-> 0, session |-> FALSE, sent |-> <<>>]

ApiIdle ==
    /\ api = NoRequest
    /\ boot = NoBoot

\* no playback has been started
PlayIdle ==
    /\ audio = [total_samples |-> 0, sample_rate |-> 0, loop |-> FALSE]
    /\ current_position = 0
    /\ playPc = "idle"
    /\ chunk = 0
    /\ played = 0

ExtIdle == AnIdle /\ RtIdle /\ WizIdle("") /\ ApiIdle /\ PlayIdle

\* ---- a mapper on its own ------------------------------------------------
MapInit ==
    /\ ms \in MapperConfigs \cup {Warm(c, WarmCalls) : c \in MapperConfigs}
    /\ out = NoValue
    /\ prevBri = <<>>
    /\ calls = 0
    /\ callN = 0
    /\ mode = "none"
    /\ nLights = 0
    /\ PipeInit
    /\ ExtIdle

CallMap ==
    /\ calls < MaxCalls
    /\ HasMap(ms)
    /\ \E f \in Frames, dt \in Dts :
          LET r == Map(ms, f[1], f[2], f[3], f[4], dt)
          IN  /\ ms' = r.st
              /\ out' = r.out
    /\ prevBri' = Brightness(out)
    /\ calls' = calls + 1
    /\ callN' = 0
    /\ UNCHANGED pipeVars
    /\ UNCHANGED extVars

CallMapLights ==
    /\ calls < MaxCalls
    /\ HasMapLights(ms)
    /\ \E f \in Frames, n \in 1..MaxLights, dt \in Dts :
          LET r == MapLights(ms, f[1], f[2], f[3], n, dt)
          IN  /\ ms' = r.st
              /\ out' = r.out
              /\ callN' = n
    /\ prevBri' = Brightness(out)
    /\ calls' = calls + 1
    /\ UNCHANGED pipeVars
    /\ UNCHANGED extVars

MapNext == CallMap \/ CallMapLights

MapperSpec == MapInit /\ [][MapNext]_vars

\* ---- the session of MusicVisualizer --------------------------------------
Init ==
    /\ mode \in Modes
    /\ nLights \in 1..MaxFixtures
    /\ ms = MapperForMode(mode, nLights)
    /\ out = NoValue
    /\ prevBri = <<>>
    /\ calls = 0
    /\ callN = 0
    /\ PipeInit
    /\ ExtIdle

\* time passes
Tick ==
    /\ sinceUpdate' = Min(sinceUpdate + TickMs, min_update_interval)
    /\ sinceFanout' = Min(sinceFanout + TickMs, min_update_interval)
    /\ UNCHANGED <<mapVars, mode, nLights, color_queue, stop_event, prodPc, pending,
                   chunks, workerPc, colors, futures, poolQueue, running,
                   poolShutdown, raisedFutures, stopPc, lastGap, nFanouts,
                   lastEnqueued, dropped, taken, submitted, trouble>>
    /\ UNCHANGED extVars

\* _process_audio_chunk up to the call of _enqueue_color_replace
ProcessChunk ==
    /\ prodPc = "idle"
    /\ chunks < MaxChunks
    /\ \E f \in PlayFrames, dt \in Dts :
          LET c == ChunkColors(ms, mode, nLights, f, dt)
          IN  /\ ms' = c.r.st
              /\ out' = c.r.out
              /\ callN' = c.n
              /\ IF ThrottleOpen(sinceUpdate)
                 THEN /\ pending' = [id |-> chunks + 1, val |-> c.r.out]
                      /\ prodPc' = "drain"
                      /\ sinceUpdate' = 0
                 ELSE UNCHANGED <<pending, prodPc, sinceUpdate>>
    /\ prevBri' = Brightness(out)
    /\ calls' = calls + 1
    /\ chunks' = chunks + 1
    /\ UNCHANGED <<mode, nLights, color_queue, stop_event, workerPc, colors, futures,
                   poolQueue, running, poolShutdown, raisedFutures, stopPc,
                   sinceFanout, lastGap, nFanouts, lastEnqueued, dropped, taken,
                   submitted, trouble>>
    /\ UNCHANGED extVars

\* _enqueue_color_replace: the inner try
ProducerDrain ==
    /\ prodPc = "drain"
    /\ LET g == EnqueueDrain(color_queue)
       IN  /\ color_queue' = g.q
           /\ dropped' = IF g.res = "item" THEN dropped \cup {Head(color_queue).id}
                                           ELSE dropped
           /\ prodPc' = IF g.res = "wait" THEN "waiting"
                        ELSE IF g.res = "Empty" /\ BareExcept(g.res) # "pass" THEN "raised"
                        ELSE "put"
    /\ UNCHANGED <<mapVars, mode, nLights, stop_event, pending, chunks, sinceUpdate,
                   workerPc, colors, futures, poolQueue, running, poolShutdown,
                   raisedFutures, stopPc, sinceFanout, lastGap, nFanouts,
                   lastEnqueued, taken, submitted, trouble>>
    /\ UNCHANGED extVars

\* _enqueue_color_replace: the put, inside the outer try
ProducerPut ==
    /\ prodPc = "put"
    /\ LET p == EnqueuePut(color_queue, pending)
       IN  /\ color_queue' = p.q
           /\ prodPc' = IF p.res = "wait" THEN "waiting"
                        ELSE IF p.res = "Full" /\ BareExcept(p.res) # "pass" THEN "raised"
                        ELSE "idle"
    /\ lastEnqueued' = pending.id
    /\ UNCHANGED <<mapVars, mode, nLights, stop_event, pending, chunks, sinceUpdate,
                   workerPc, colors, futures, poolQueue, running, poolShutdown,
                   raisedFutures, stopPc, sinceFanout, lastGap, nFanouts, dropped,
                   taken, submitted, trouble>>
    /\ UNCHANGED extVars

\* the while condition of _light_update_worker
WorkerLoop ==
    /\ workerPc = "loop"
    /\ workerPc' = IF LoopContinues(stop_event) THEN "get" ELSE "finally"
    /\ UNCHANGED <<mapVars, mode, nLights, color_queue, stop_event, prodPc, pending,
                   chunks, sinceUpdate, colors, futures, poolQueue, running,
                   poolShutdown, raisedFutures, stopPc, sinceFanout, lastGap,
                   nFanouts, lastEnqueued, dropped, taken, submitted, trouble>>
    /\ UNCHANGED extVars

\* color_queue.get(timeout=0.1) runs out: queue.Empty, continue
WorkerGetEmpty ==
    /\ workerPc = "get"
    /\ QueueGet(color_queue, TRUE).res = "wait"
    /\ workerPc' = "loop"
    /\ UNCHANGED <<mapVars, mode, nLights, color_queue, stop_event, prodPc, pending,
                   chunks, sinceUpdate, colors, futures, poolQueue, running,
                   poolShutdown, raisedFutures, stopPc, sinceFanout, lastGap,
                   nFanouts, lastEnqueued, dropped, taken, submitted, trouble>>
    /\ UNCHANGED extVars

\* color_queue.get(timeout=0.1) gives a command set; its tasks are submitted
WorkerTake ==
    /\ workerPc = "get"
    /\ QueueGet(color_queue, TRUE).res = "item"
    /\ LET c == Head(color_queue)
           r == FanOut(c, nLights)
       IN  /\ color_queue' = QueueGet(color_queue, TRUE).q
           /\ colors' = c
           /\ taken' = taken \cup {c.id}
           /\ futures' = IF r.exc THEN <<>> ELSE r.tasks
           /\ poolQueue' = poolQueue \o r.tasks
           /\ submitted' = submitted \cup {<<r.tasks[i].id, r.tasks[i].light>> :
                                             i \in 1..Len(r.tasks)}
           /\ workerPc' = IF r.exc THEN "finally"
                          ELSE IF r.tasks = <<>> THEN "loop" ELSE "wait"
    /\ lastGap' = sinceFanout
    /\ sinceFanout' = 0
    /\ nFanouts' = nFanouts + 1
    /\ UNCHANGED <<mapVars, mode, nLights, stop_event, prodPc, pending, chunks,
                   sinceUpdate, running, poolShutdown, raisedFutures, stopPc,
                   lastEnqueued, dropped, trouble>>
    /\ UNCHANGED extVars

FutureDone(t) == \A i \in 1..Len(poolQueue) : poolQueue[i] # t

\* f.result(timeout=0.5) of the next future: its value, its exception, or
\* the timeout when the send is not over
WorkerResult ==
    /\ workerPc = "wait"
    /\ futures # <<>>
    /\ LET t       == Head(futures)
           isDone  == t \notin running /\ FutureDone(t)
           outcome == IF ~isDone THEN "timeout"
                      ELSE IF t \in raisedFutures THEN "exception" ELSE "value"
       IN  /\ trouble' = IF outcome = "timeout" THEN trouble \cup {t.id} ELSE trouble
           /\ IF ResultHandler(outcome) = "continue"
              THEN /\ futures' = Tail(futures)
                   /\ workerPc' = IF Tail(futures) = <<>> THEN "loop" ELSE "wait"
              ELSE /\ futures' = <<>>
                   /\ workerPc' = "finally"
    /\ UNCHANGED <<mapVars, mode, nLights, color_queue, stop_event, prodPc, pending,
                   chunks, sinceUpdate, colors, poolQueue, running, poolShutdown,
                   raisedFutures, stopPc, sinceFanout, lastGap, nFanouts,
                   lastEnqueued, dropped, taken, submitted>>
    /\ UNCHANGED extVars

\* finally: self._executor.shutdown(wait=True) begins
WorkerFinally ==
    /\ workerPc = "finally"
    /\ poolShutdown' = TRUE
    /\ workerPc' = "shutdown"
    /\ UNCHANGED <<mapVars, mode, nLights, color_queue, stop_event, prodPc, pending,
                   chunks, sinceUpdate, colors, futures, poolQueue, running,
                   raisedFutures, stopPc, sinceFanout, lastGap, nFanouts,
                   lastEnqueued, dropped, taken, submitted, trouble>>
    /\ UNCHANGED extVars

\* shutdown(wait=True) returns when every work item is over; the thread ends
WorkerExit ==
    /\ workerPc = "shutdown"
    /\ poolQueue = <<>>
    /\ running = {}
    /\ workerPc' = "done"
    /\ UNCHANGED <<mapVars, mode, nLights, color_queue, stop_event, prodPc, pending,
                   chunks, sinceUpdate, colors, futures, poolQueue, running,
                   poolShutdown, raisedFutures, stopPc, sinceFanout, lastGap,
                   nFanouts, lastEnqueued, dropped, taken, submitted, trouble>>
    /\ UNCHANGED extVars

\* a thread of the pool (max_workers = len(self.lights)) starts the next
\* work item: _safe_set_color calls light.set_color
PoolStart ==
    /\ poolQueue # <<>>
    /\ Cardinality(running) < nLights
    /\ running' = running \cup {Head(poolQueue)}
    /\ poolQueue' = Tail(poolQueue)
    /\ UNCHANGED <<mapVars, mode, nLights, color_queue, stop_event, prodPc, pending,
                   chunks, sinceUpdate, workerPc, colors, futures, poolShutdown,
                   raisedFutures, stopPc, sinceFanout, lastGap, nFanouts,
                   lastEnqueued, dropped, taken, submitted, trouble>>
    /\ UNCHANGED extVars

\* light.set_color returns or raises; the work item is over
PoolFinish ==
    \E t \in running, raised \in BOOLEAN :
        /\ running' = running \ {t}
        /\ raisedFutures' = IF SafeSetColor(raised) = "exception"
                            THEN raisedFutures \cup {t} ELSE raisedFutures
        /\ trouble' = IF raised THEN trouble \cup {t.id} ELSE trouble
        /\ UNCHANGED <<mapVars, mode, nLights, color_queue, stop_event, prodPc,
                       pending, chunks, sinceUpdate, workerPc, colors, futures,
                       poolQueue, poolShutdown, stopPc, sinceFanout, lastGap,
                       nFanouts, lastEnqueued, dropped, taken, submitted>>
        /\ UNCHANGED extVars

\* stop(), called when the audio loop of start() is over: the signal is set
StopCall ==
    /\ stopPc = "idle"
    /\ prodPc = "idle"
    /\ stop_event' = TRUE
    /\ prodPc' = "ended"
    /\ stopPc' = IF workerPc # "done" THEN "join" ELSE "returned"
    /\ UNCHANGED <<mapVars, mode, nLights, color_queue, pending, chunks, sinceUpdate,
                   workerPc, colors, futures, poolQueue, running, poolShutdown,
                   raisedFutures, sinceFanout, lastGap, nFanouts, lastEnqueued,
                   dropped, taken, submitted, trouble>>
    /\ UNCHANGED extVars

\* self.update_thread.join(timeout=1.0) returns: the thread ended, or the
\* second ran out
StopJoin ==
    /\ stopPc = "join"
    /\ \E timedOut \in BOOLEAN : workerPc = "done" \/ timedOut
    /\ stopPc' = "returned"
    /\ UNCHANGED <<mapVars, mode, nLights, color_queue, stop_event, prodPc, pending,
                   chunks, sinceUpdate, workerPc, colors, futures, poolQueue, running,
                   poolShutdown, raisedFutures, sinceFanout, lastGap, nFanouts,
                   lastEnqueued, dropped, taken, submitted, trouble>>
    /\ UNCHANGED extVars

Worker == WorkerLoop \/ WorkerGetEmpty \/ WorkerTake \/ WorkerResult
              \/ WorkerFinally \/ WorkerExit

Next ==
    \/ Tick
    \/ ProcessChunk
    \/ ProducerDrain
    \/ ProducerPut
    \/ Worker
    \/ PoolStart
    \/ PoolFinish
    \/ StopCall
    \/ StopJoin

Spec == Init /\ [][Next]_vars

\* the threads are scheduled and every send comes to an end
Fairness ==
    /\ WF_vars(Worker)
    /\ WF_vars(PoolStart)
    /\ WF_vars(PoolFinish)
    /\ WF_vars(StopJoin)

\* one mode for each shape of command set a mapper hands to the relay: a
\* tuple, a list of one command per fixture, a flat list of four numbers
FairModes == {"energy", "stereo_split", "spectrum_gradient"}

FairInit == Init /\ mode \in FairModes

FairSpec == FairInit /\ [][Next]_vars /\ Fairness

\* ---- an analyzer on its own ---------------------------------------------
\* frames analysed in a run
MaxFrames == 4
\* blocks of silence before a run: none, or a pause of 10 blocks
Pauses == {0, 10}

\* the frames of a run: silence, faint noise, a moderate frame, a frame at
\* the initial maximum, a frame with a bass twice as strong
AnFrames ==
    {ZeroFrame,
     RawFrame(Fine \div 20, Fine \div 20, Fine \div 20),
     RawFrame(Fine \div 2, Fine \div 4, 0),
     RawFrame(Fine, Fine, Fine),
     RawFrame(2 * Fine, Fine \div 2, Fine \div 10)}

\* no mapper and no session
MapIdle ==
    /\ ms = Blank("none")
    /\ out = NoValue
    /\ prevBri = <<>>
    /\ calls = 0
    /\ callN = 0
    /\ mode = "none"
    /\ nLights = 0

AnInit ==
    /\ MapIdle
    /\ PipeInit
    /\ an \in {Pause(AnalyzerInit, j) : j \in Pauses}
    /\ anPrev = an
    /\ anRaw = ZeroFrame
    /\ anOut = an.smoothed
    /\ anFrames = 0
    /\ RtIdle
    /\ WizIdle("")
    /\ ApiIdle
    /\ PlayIdle

\* analyzer.analyze(chunk)
AnalyzeChunk ==
    /\ anFrames < MaxFrames
    /\ \E f \in AnFrames :
          LET r == Analyze(an, f)
          IN  /\ an' = r.st
              /\ anOut' = r.out
              /\ anRaw' = f
    /\ anPrev' = an
    /\ anFrames' = anFrames + 1
    /\ UNCHANGED <<mapVars, pipeVars, rtVars, wizVars, apiVars, playVars>>

AnNext == AnalyzeChunk

AnalyzerSpec == AnInit /\ [][AnNext]_vars

\* ---- a real-time visualizer on its own -----------------------------------
MaxCycles == 4

\* the time between two chunks: a backlog, half the switch interval, a stall
RtDts == {20, 1500, 3001}

RtBands == <<Scale, Scale \div 2, Scale \div 5>>

SilentChunk == Chunk(0, 0, <<0, 0, 0>>)

LoudChunk(crest) == Chunk(Scale \div 5, crest, RtBands)

\* crest factors below, on and above the two thresholds
RtCrests == {1500, 2800, 3000, 5000}

RtChunks == {SilentChunk} \cup {LoudChunk(c) : c \in RtCrests}

\* visualizers that have run for a while, one chunk every 100 ms: a window
\* inside the band reached from below and from above, and a full window
\* whose oldest sample differs from the rest
RtWarmBelow == Cycles(RtInit(2), LoudChunk(2900), 100, CrestWindow)

RtHot == Cycles(RtInit(2), LoudChunk(5000), 100, CrestWindow)

RtWarmAbove == Cycles(RtHot, LoudChunk(2900), 100, CrestWindow)

RtOnePeak == Cycles(RtInit(2), LoudChunk(5000), 100, 1)

RtWarmMixed == Cycles(RtOnePeak, LoudChunk(2900), 100, CrestWindow - 1)

RtWarm == {RtWarmBelow, RtWarmAbove, RtWarmMixed}

RtStarts == {RtInit(n) : n \in 1..MaxFixtures} \cup RtWarm

RtSpecInit ==
    /\ MapIdle
    /\ PipeInit
    /\ AnIdle
    /\ rt \in RtStarts
    /\ rtPrev = rt
    /\ rtChunk = SilentChunk
    /\ rtCycles = 0
    /\ rtSwitches = 0
    /\ WizIdle("")
    /\ ApiIdle
    /\ PlayIdle

\* data = mic.record(...); self._process_audio(data)
ProcessAudioCycle ==
    /\ rtCycles < MaxCycles
    /\ \E c \in RtChunks, dt \in RtDts :
          /\ rt' = ProcessAudio(rt, c, dt)
          /\ rtChunk' = c
    /\ rtSwitches' = IF rt'.switched THEN rtSwitches + 1 ELSE rtSwitches
    /\ rtPrev' = rt
    /\ rtCycles' = rtCycles + 1
    /\ UNCHANGED <<mapVars, pipeVars, anVars, wizVars, apiVars, playVars>>

RtNext == ProcessAudioCycle

RtSpec == RtSpecInit /\ [][RtNext]_vars

\* ---- a fixture client on its own -----------------------------------------
MaxBrightness == 300
MaxResponses == 4

\* the address of a fixture and the clients the program builds:
\* WizLight(ip) for a fixture, WizLight() for discovery
FixtureIp == "10.0.0.2"

ClientIps == {"", FixtureIp}

Broadcast == "255.255.255.255"

\* arguments of set_color
ColorInputs == {<<0, 128, 255>>, <<-1, 256, 300>>, <<255, 0, -256>>, <<12, 34, 56>>}

BrightnessInputs == -2..MaxBrightness

\* how long after the call of recvfrom a datagram of discovery arrives, ms:
\* each is inside the wait of the socket
Gaps == {100, 1900}

\* who answers, and with what
Addresses == {FixtureIp, "10.0.0.3", "10.0.0.4"}

Payloads == {"on", "off", "garbage"}

WizInit ==
    /\ MapIdle
    /\ PipeInit
    /\ AnIdle
    /\ RtIdle
    /\ ApiIdle
    /\ PlayIdle
    /\ \E ip \in ClientIps : WizIdle(ip)

\* send_command up to its first recvfrom
SendCommand(op, params) ==
    /\ wizPc = "idle"
    /\ wizOp' = op
    /\ wizLights' = <<>>
    /\ IF Addressed(wizIp)
       THEN /\ wizSent' = Append(wizSent, Datagram(MethodOf(op), params, wizIp))
            /\ IF WaitFor(op)
               THEN /\ wizPc' = "recv"
                    /\ wizResult' = NoResult
               ELSE /\ wizPc' = "done"
                    /\ wizResult' = Success
       ELSE /\ wizSent' = Append(wizSent, Datagram(MethodOf(op), params, Broadcast))
            /\ wizPc' = "collect"
            /\ wizResult' = NoResult
    /\ UNCHANGED <<wizIp, wizHeard, wizElapsed>>
    /\ UNCHANGED <<mapVars, pipeVars, anVars, rtVars, apiVars, playVars>>

\* light.set_color(r, g, b, brightness) on a fixture
SetColor ==
    /\ Addressed(wizIp)
    /\ \E c \in ColorInputs, bri \in BrightnessInputs :
          /\ wizArgs' = <<c[1], c[2], c[3], bri>>
          /\ SendCommand("set_color", PilotParams(c[1], c[2], c[3], bri))

\* light.set_state(state) on a fixture
SetState ==
    /\ Addressed(wizIp)
    /\ \E on \in BOOLEAN : SendCommand("set_state", [NoParams EXCEPT !.state = on])
    /\ UNCHANGED wizArgs

\* light.get_state() on a fixture
GetState ==
    /\ Addressed(wizIp)
    /\ SendCommand("get_state", NoParams)
    /\ UNCHANGED wizArgs

\* WizLight().discover()
Discover ==
    /\ ~Addressed(wizIp)
    /\ SendCommand("discover", NoParams)
    /\ UNCHANGED wizArgs

\* the recvfrom of an addressed call returns a datagram
RecvResponse ==
    /\ wizPc = "recv"
    /\ \E a \in Addresses, p \in Payloads :
          /\ wizHeard' = Append(wizHeard, <<a, p>>)
          /\ wizResult' = IF Parses(p) THEN Parsed(p) ELSE ErrorValue("Expecting value")
    /\ wizPc' = "done"
    /\ UNCHANGED <<wizIp, wizOp, wizArgs, wizSent, wizLights, wizElapsed>>
    /\ UNCHANGED <<mapVars, pipeVars, anVars, rtVars, apiVars, playVars>>

\* the recvfrom of an addressed call times out after 0.5 s
RecvTimeout ==
    /\ wizPc = "recv"
    /\ wizResult' = ErrorValue("Timeout waiting for light")
    /\ wizPc' = "done"
    /\ UNCHANGED <<wizIp, wizOp, wizArgs, wizSent, wizLights, wizHeard, wizElapsed>>
    /\ UNCHANGED <<mapVars, pipeVars, anVars, rtVars, apiVars, playVars>>

\* a recvfrom of discovery returns a datagram, `gap` after it was called; one
\* that does not parse raises out of the loop and out of send_command
DiscoverRecv ==
    /\ wizPc = "collect"
    /\ Len(wizHeard) < MaxResponses
    /\ \E gap \in Gaps : wizElapsed' = wizElapsed + gap
    /\ \E a \in Addresses, p \in Payloads :
          /\ wizHeard' = Append(wizHeard, <<a, p>>)
          /\ IF Parses(p)
             THEN /\ wizLights' = Collect(wizLights, a, p)
                  /\ UNCHANGED <<wizPc, wizResult>>
             ELSE /\ wizPc' = "done"
                  /\ wizResult' = Raised("JSONDecodeError")
                  /\ UNCHANGED wizLights
    /\ UNCHANGED <<wizIp, wizOp, wizArgs, wizSent>>
    /\ UNCHANGED <<mapVars, pipeVars, anVars, rtVars, apiVars, playVars>>

\* a recvfrom of discovery times out after 2 s: break, return lights
DiscoverTimeout ==
    /\ wizPc = "collect"
    /\ wizResult' = Lights(wizLights)
    /\ wizPc' = "done"
    /\ wizElapsed' = wizElapsed + DiscoverWait
    /\ UNCHANGED <<wizIp, wizOp, wizArgs, wizSent, wizLights, wizHeard>>
    /\ UNCHANGED <<mapVars, pipeVars, anVars, rtVars, apiVars, playVars>>

WizNext ==
    \/ SetColor
    \/ SetState
    \/ GetState
    \/ Discover
    \/ RecvResponse
    \/ RecvTimeout
    \/ DiscoverRecv
    \/ DiscoverTimeout

WizSpec == WizInit /\ [][WizNext]_vars

\* ---- the API server and the visualizer commands ---------------------------
\* what discover() returns for the datagrams that arrive before its timeout
RECURSIVE Gather(_, _)
Gather(lights, heard) ==
    IF heard = <<>> THEN Lights(lights)
    ELSE IF ~Parses(Head(heard)[2]) THEN Raised("JSONDecodeError")
    ELSE Gather(Collect(lights, Head(heard)[1], Head(heard)[2]), Tail(heard))

\* what a call on a fixture returns when recvfrom gives `reply`
CallResult(op, reply) ==
    IF ~WaitFor(op) THEN Success
    ELSE IF reply = "timeout" THEN ErrorValue("Timeout waiting for light")
    ELSE IF Parses(reply) THEN Parsed(reply)
    ELSE ErrorValue("Expecting value")

\* get_first_light_ip: the address, or the exception it raises
FirstLightIp(found) ==
    IF found.kind = "raised"
    THEN [exc |-> found.error, status |-> 0, detail |-> found.error, ip |-> ""]
    ELSE IF found.lights = <<>>
    THEN [exc |-> "HTTPException", status |-> 404,
          detail |-> "No lights found on network", ip |-> ""]
    ELSE [exc |-> "none", status |-> 0, detail |-> "", ip |-> found.lights[1].ip]

\* the client method behind an operation on the first fixture
ApiMethod(op) ==
    IF op = "color" THEN "set_color"
    ELSE IF op = "status" THEN "get_state"
    ELSE "set_state"

FirstLightOps == {"on", "off", "color", "status"}

\* a handler of the first fixture: everything runs inside
\* `try: ... except Exception as e: raise HTTPException(500, str(e))`,
\* and HTTPException is an Exception
FirstLightHandler(op, found, reply) ==
    LET first == FirstLightIp(found)
    IN  IF first.exc # "none"
        THEN [op |-> op, found |-> found, status |-> 500,
              detail |-> IF first.exc = "HTTPException" THEN "str(HTTPException)"
                         ELSE first.detail,
              sent |-> <<>>]
        ELSE [op |-> op, found |-> found, status |-> 200,
              detail |-> CallResult(ApiMethod(op), reply).kind,
              sent |-> <<Datagram(MethodOf(ApiMethod(op)), NoParams, first.ip)>>]

\* GET /discover
DiscoverHandler(found) ==
    IF found.kind = "raised"
    THEN [op |-> "discover", found |-> found, status |-> 500, detail |-> found.error,
          sent |-> <<>>]
    ELSE [op |-> "discover", found |-> found, status |-> 200, detail |-> "", sent |-> <<>>]

\* main of music_visualizer.py (--lights all) and of tidal_realtime.py: no
\* session is built when discovery finds nothing
Main(prog, found) ==
    IF found.kind = "raised"
    THEN [prog |-> prog, found |-> found, exit |-> 1, session |-> FALSE, sent |-> <<>>]
    ELSE IF found.lights = <<>>
    THEN [prog |-> prog, found |-> found, exit |-> 1, session |-> FALSE, sent |-> <<>>]
    ELSE [prog |-> prog, found |-> found, exit |-> 0, session |-> TRUE, sent |-> <<>>]

\* the datagrams that answer one discovery
HeardOnce == {<<>>} \cup {<<x>> : x \in Addresses \X Payloads}
                   \cup {<<x, y>> : x, y \in Addresses \X Payloads}

Replies == {"timeout"} \cup Payloads

Programs == {"music_visualizer", "tidal_realtime"}

ApiInit ==
    /\ MapIdle
    /\ PipeInit
    /\ AnIdle
    /\ RtIdle
    /\ WizIdle("")
    /\ ApiIdle
    /\ PlayIdle

\* POST /on, /off, /color, GET /status
FirstLightRequest ==
    /\ boot = NoBoot
    /\ \E op \in FirstLightOps, heard \in HeardOnce, reply \in Replies :
          api' = FirstLightHandler(op, Gather(<<>>, heard), reply)
    /\ UNCHANGED boot
    /\ UNCHANGED <<mapVars, pipeVars, anVars, rtVars, wizVars, playVars>>

DiscoverRequest ==
    /\ boot = NoBoot
    /\ \E heard \in HeardOnce : api' = DiscoverHandler(Gather(<<>>, heard))
    /\ UNCHANGED boot
    /\ UNCHANGED <<mapVars, pipeVars, anVars, rtVars, wizVars, playVars>>

\* python music_visualizer.py --file f / python tidal_realtime.py
RunMain ==
    /\ api = NoRequest
    /\ boot = NoBoot
    /\ \E prog \in Programs, heard \in HeardOnce : boot' = Main(prog, Gather(<<>>, heard))
    /\ UNCHANGED api
    /\ UNCHANGED <<mapVars, pipeVars, anVars, rtVars, wizVars, playVars>>

ApiNext == FirstLightRequest \/ DiscoverRequest \/ RunMain

ApiSpec == ApiInit /\ [][ApiNext]_vars

\* ---- the playback loop of MusicVisualizer.start ---------------------------
\* longest file, in samples
MaxSamples == 12
\* iterations of the loop explored
MaxPlayed == 6

\* sample rates of the files: 3 and 4 samples to a chunk
SampleRates == {60, 80}

\* chunk_size = int(self.sample_rate * 0.05)
ChunkSize(rate) == rate \div 20

\* len(audio_data[from:to]) for 0 <= from and 0 <= to
SliceLen(total, from, to) == Max(0, Min(to, total) - Min(from, total))

\* one iteration of the loop at position pos: the length of the chunk it
\* builds, the position it leaves, and whether it ends with the break
NextChunk(a, pos) ==
    LET size == ChunkSize(a.sample_rate)
        total == a.total_samples
    IN  IF pos + size > total
        THEN IF a.loop
             THEN LET remaining == size - (total - pos)
                  IN  [len |-> SliceLen(total, pos, total) + SliceLen(total, 0, remaining),
                       pos |-> remaining, last |-> FALSE]
             ELSE [len |-> SliceLen(total, pos, total), pos |-> total, last |-> TRUE]
        ELSE [len |-> SliceLen(total, pos, pos + size), pos |-> pos + size, last |-> FALSE]

\* np.fft.rfft(audio_chunk) of AudioAnalyzer.analyze raises ValueError on a
\* chunk of no samples
AnalyzeRaises(len) == len = 0

PlayInit ==
    /\ MapIdle
    /\ PipeInit
    /\ AnIdle
    /\ RtIdle
    /\ WizIdle("")
    /\ ApiIdle
    /\ audio \in [total_samples : 1..MaxSamples, sample_rate : SampleRates, loop : BOOLEAN]
    /\ current_position = 0
    /\ playPc = "idle"
    /\ chunk = 0
    /\ played = 0

\* start() up to its loop
Start ==
    /\ playPc = "idle"
    /\ playPc' = "running"
    /\ current_position' = 0
    /\ UNCHANGED <<audio, chunk, played>>
    /\ UNCHANGED <<mapVars, pipeVars, anVars, rtVars, wizVars, apiVars>>

\* one iteration of `while self.running`: the chunk is cut, written to the
\* stream and handed to _process_audio_chunk; an exception of the analyzer
\* leaves start(), the break of the non-looping branch ends it
PlayChunk ==
    /\ playPc = "running"
    /\ played < MaxPlayed
    /\ chunk' = NextChunk(audio, current_position).len
    /\ current_position' = NextChunk(audio, current_position).pos
    /\ played' = played + 1
    /\ playPc' = IF AnalyzeRaises(chunk') THEN "raised"
                 ELSE IF NextChunk(audio, current_position).last THEN "ended"
                 ELSE "running"
    /\ UNCHANGED audio
    /\ UNCHANGED <<mapVars, pipeVars, anVars, rtVars, wizVars, apiVars>>

\* KeyboardInterrupt in the loop: caught, then the finally of start()
Interrupt ==
    /\ playPc = "running"
    /\ playPc' = "interrupted"
    /\ UNCHANGED <<audio, current_position, chunk, played>>
    /\ UNCHANGED <<mapVars, pipeVars, anVars, rtVars, wizVars, apiVars>>

PlayNext == Start \/ PlayChunk \/ Interrupt

PlaySpec == PlayInit /\ [][PlayNext]_vars

\* ------------------------------------------------------------------------
\* Properties of the mappers
\* ------------------------------------------------------------------------
InRange(x, lo, hi) == lo <= x /\ x <= hi

\* C7 as stated: map_lights(bass, mids, treble, n) returns a list of exactly
\* n colour commands, for every multi-fixture mapper and every n >= 1.
C7_ExactlyN ==
    callN >= 1 => (out.py = "list" /\ Len(out.items) = callN)

\* C7 amended: MultiLightMapper and TurboSpectrumGradient return a list of
\* exactly n commands; each dual-fixture mapper returns a list of exactly two
\* commands whatever n is.
C7_LengthByClass ==
    callN >= 1 =>
        /\ out.py = "list"
        /\ Len(out.items) = (IF ms.kind \in DualKinds THEN 2 ELSE callN)
        /\ \A i \in 1..Len(out.items) : Len(out.items[i].v) = 4

C7_Witness ==
    /\ callN = 3
    /\ ms.kind = "StereoSplit"
    /\ Len(out.items) = 2

\* C8: for every envelope-follower mapper, after any sequence of calls, every
\* emitted brightness and every stored previous brightness is within
\* [min_brightness, max_brightness] and every emitted R, G, B is in [0, 255].
C8_EnvelopeRanges ==
    ms.kind \in EnvelopeKinds =>
        /\ InRange(ms.prev_b1, ms.min_b, ms.max_b)
        /\ InRange(ms.prev_b2, ms.min_b, ms.max_b)
        /\ \A i \in 1..Len(Commands(out)) :
              LET c == Commands(out)[i]
              IN  /\ InRange(c[4], ms.min_b, ms.max_b)
                  /\ \A k \in 1..3 : InRange(c[k], 0, 255)

C8_Witness ==
    /\ ms.kind \in DualKinds
    /\ callN >= 1
    /\ Commands(out)[1][4] >= ms.max_b - 1
    /\ Commands(out)[2][4] = ms.min_b

\* C9 as stated: the brightness TurboSpectrumGradient emits stays within
\* [min_brightness, max_brightness], also when the chorus condition holds.
C9_TurboBrightnessInRange ==
    (ms.kind = "TurboSpectrumGradient" /\ calls > 0) =>
        \A i \in 1..Len(Commands(out)) : InRange(Commands(out)[i][4], ms.min_b, ms.max_b)

\* C10: the brightness an envelope-follower mapper emits for a fixture in two
\* consecutive calls differs by at most max_step.
C10_SlewLimit ==
    (ms.kind \in EnvelopeKinds /\ calls >= 2) =>
        \A i \in 1..Min(Len(prevBri), Len(Brightness(out))) :
            /\ Brightness(out)[i] - prevBri[i] <= ms.max_step
            /\ prevBri[i] - Brightness(out)[i] <= ms.max_step

\* a fall of a full step after a rise of a full step
C10_Witness ==
    /\ ms.kind \in EnvelopeKinds
    /\ calls >= 2
    /\ Len(prevBri) >= 1
    /\ prevBri[1] - Brightness(out)[1] = ms.max_step
    /\ prevBri[1] < ms.max_b - 1


\* ------------------------------------------------------------------------
\* Properties of the relay and the dispatch loop
\* ------------------------------------------------------------------------
\* C1: the relay never holds more than one command set; what it holds is the
\* command set of the latest completed submission; a command set the
\* producer displaced is never taken by the dispatch loop.
C1_LatestOnly ==
    /\ Len(color_queue) <= 1
    /\ color_queue # <<>> => color_queue[1].id = lastEnqueued
    /\ dropped \cap taken = {}
    /\ \A id \in taken : id <= lastEnqueued

\* a submission replaced one the loop had not picked up, and the loop then
\* took the newer one
C1_Witness ==
    /\ dropped # {}
    /\ \E a \in dropped : colors.id > a /\ colors.id \in taken
    /\ prodPc = "idle"

\* C2: a submission never waits and never raises to its caller, whatever
\* the relay holds and wherever the dispatch loop is.
C2_NeverBlocksNorRaises == prodPc \notin {"waiting", "raised"}

\* the dispatch loop has ended without a stop, and a later submission has
\* completed and left its command set in the relay
C2_Witness ==
    /\ workerPc = "done"
    /\ ~stop_event
    /\ prodPc = "idle"
    /\ color_queue # <<>>
    /\ lastEnqueued > colors.id

\* C3: two fan-outs of the dispatch loop are at least min_update_interval
\* apart.
C3_FanoutsThrottled == nFanouts >= 2 => lastGap >= min_update_interval

\* C4: every task of a command set is submitted before any result is
\* awaited, a send that raises or is not over in time neither stops the
\* other sends nor the loop, and every submitted send is run.
C4_Isolation ==
    /\ [](workerPc = "wait" =>
             \A l \in 1..nLights : <<colors.id, l>> \in submitted)
    /\ [](trouble # {} /\ workerPc \in {"finally", "shutdown", "done"} => stop_event)
    /\ (workerPc = "wait") ~> (workerPc # "wait")
    /\ <>[](poolQueue = <<>> /\ running = {})

\* a send of the first command set failed, and the loop fanned out a later
\* command set whose sends all ran
C4_Witness ==
    /\ 1 \in trouble
    /\ colors.id = 2
    /\ \A l \in 1..nLights : <<2, l>> \in submitted
    /\ nLights = 2
    /\ poolQueue = <<>> /\ running = {}
    /\ workerPc = "loop"

\* C5: the dispatch loop ends only once the stop signal is set.
C5_EndsOnlyOnStop == workerPc \in {"finally", "shutdown", "done"} => stop_event

\* C6: once the stop signal is set the dispatch loop ends and shuts the
\* pool down, and stop() returns.
C6_StopTerminates ==
    /\ stop_event ~> (workerPc = "done" /\ poolShutdown)
    /\ (stopPc = "join") ~> (stopPc = "returned")
    /\ [](stopPc # "idle" => stop_event)

\* stop() was called while sends were in flight; the loop has ended, the
\* pool is shut down and stop() has returned
C6_Witness ==
    /\ stop_event
    /\ workerPc = "done"
    /\ poolShutdown
    /\ stopPc = "returned"
    /\ submitted # {}
    /\ taken # {}


\* ------------------------------------------------------------------------
\* Silence
\* ------------------------------------------------------------------------
\* consecutive silent frames of the scenario
SilentCalls == 10
\* silent frames looked ahead
SilentHorizon == 8

\* C11: from any state of a SimplePulseMapper, the last of 10 consecutive
\* map calls with amplitude 0 emits the configured minimum brightness.
C11_SilenceReachesMin ==
    (ms.kind = "SimplePulse" /\ HasMap(ms))
        => SilentBrightness(ms, SilentCalls) = ms.min_b

\* C12: from any state of a StrobeModeMapper, silent map calls reach the
\* minimum brightness and stay there for as long as the silence lasts.
C12_StrobeSilenceMin ==
    ms.kind = "StrobeMode"
        => \E k \in 1..SilentHorizon :
              \A j \in k..SilentHorizon : SilentBrightness(ms, j) = ms.min_b


\* ------------------------------------------------------------------------
\* Properties of the band analyzer
\* ------------------------------------------------------------------------
\* C13: after every analyze call each running maximum is at least the band
\* energy just measured, each normalised energy is in [0,1] and each
\* returned band is in [0,1].
C13_BandsNormalised ==
    anFrames > 0 =>
        \A b \in Bands :
            /\ an.max[b] >= anRaw[b]
            /\ InRange(Normalise(anRaw[b], an.max[b]), 0, Scale)
            /\ InRange(anOut[b], 0, Scale)
            /\ anOut[b] = an.smoothed[b]

\* a bass stronger than the running maximum was measured after an earlier
\* frame: the maximum was raised to it and the returned bass is positive
C13_Witness ==
    /\ anFrames >= 2
    /\ anRaw["bass"] > Fine
    /\ an.max["bass"] = anRaw["bass"]
    /\ an.max["bass"] > anPrev.max["bass"]
    /\ anOut["bass"] > 0

\* the level a floor of the auto-gain is looked for at: a tenth of the
\* initial maximum
GainFloor == Fine \div 10

\* C14: a band energy that does not exceed the decayed maximum leaves the
\* maximum at exactly the previous maximum times gain_decay, strictly
\* smaller; the maximum is raised only by an energy above the decayed
\* maximum; and the maximum does not fall below a floor.
C14_DecayUntilFloor ==
    anFrames > 0 =>
        \A b \in Bands :
            /\ anRaw[b] <= DecayMax(anPrev.max[b])
                  => /\ an.max[b] = DecayMax(anPrev.max[b])
                     /\ an.max[b] < anPrev.max[b]
            /\ an.max[b] > anPrev.max[b] => anRaw[b] > DecayMax(anPrev.max[b])
            /\ an.max[b] >= GainFloor

\* C15 as stated: analyze on an all-zero frame returns 0 for every band,
\* whatever the analyzer went through before.
C15_ZeroFrameZeroBands ==
    (anFrames > 0 /\ anRaw = ZeroFrame) => \A b \in Bands : anOut[b] = 0

\* C15: on an all-zero frame every normalised energy is 0 and each returned
\* band is (1 - smoothing) times its previous smoothed value: 0 from a new
\* analyzer, a decaying remainder after frames that were not silent.
C15_ZeroFrameDecays ==
    (anFrames > 0 /\ anRaw = ZeroFrame) =>
        \A b \in Bands :
            /\ an.max[b] > 0
            /\ Normalise(anRaw[b], an.max[b]) = 0
            /\ anOut[b] = ((Scale - smoothing) * anPrev.smoothed[b]) \div Scale
            /\ anPrev.smoothed[b] = 0 => anOut[b] = 0

\* an all-zero frame right after a loud one: the returned bass is not 0
C15_Witness ==
    /\ anFrames >= 2
    /\ anRaw = ZeroFrame
    /\ anPrev.smoothed["bass"] >= smoothing
    /\ anOut["bass"] > 0

\* ------------------------------------------------------------------------
\* Properties of the mode selector
\* ------------------------------------------------------------------------

\* the window's average crest factor is above / below a threshold
AvgAbove(h, limit) == SumSeq(h) > limit * Len(h)

AvgBelow(h, limit) == SumSeq(h) < limit * Len(h)

\* C16: whenever _auto_dj_logic evaluates the window, an average above 3.0
\* leaves the mode at spectrum_pulse, an average below 2.8 leaves it at
\* spectrum_gradient and an average in [2.8, 3.0] leaves the mode as it was;
\* the mode is always one of the two, and it is spectrum_gradient for as long
\* as nothing has been sampled since construction
C16_DecisionRule ==
    LET h == rt.crest_factor_history
    IN  /\ rt.current_mode \in RtModes
        /\ h = <<>> => rt.current_mode = "spectrum_gradient"
        /\ \A n \in 1..MaxFixtures : RtInit(n).current_mode = "spectrum_gradient"
        /\ (rtCycles > 0 /\ rt.evaluated) =>
              /\ AvgAbove(h, CrestHigh) => rt.current_mode = "spectrum_pulse"
              /\ AvgBelow(h, CrestLow) => rt.current_mode = "spectrum_gradient"
              /\ (~AvgAbove(h, CrestHigh) /\ ~AvgBelow(h, CrestLow))
                    => rt.current_mode = rtPrev.current_mode

\* the window was evaluated with its average inside the band and the mode,
\* spectrum_pulse, was held
C16_Witness ==
    /\ rtCycles > 0
    /\ rt.evaluated
    /\ ~AvgAbove(rt.crest_factor_history, CrestHigh)
    /\ ~AvgBelow(rt.crest_factor_history, CrestLow)
    /\ AvgBelow(rt.crest_factor_history, CrestHigh)
    /\ rt.current_mode = "spectrum_pulse"

\* C17: a mode change happens only when more than 3 s have passed since the
\* mode change before it, or since construction when it is the first
C17_RateLimit ==
    (rtCycles > 0 /\ rt.current_mode # rtPrev.current_mode)
        => /\ rt.switched
           /\ rt.gap > SwitchInterval

\* a second mode change in the run
C17_Witness ==
    /\ rtSwitches >= 2
    /\ rt.switched
    /\ rt.current_mode # rtPrev.current_mode

\* ------------------------------------------------------------------------
\* Properties of the fixture client
\* ------------------------------------------------------------------------

\* the datagram of the call in progress
LastSent == wizSent[Len(wizSent)]

\* C18: set_color transmits a setPilot with r, g, b in [0,255] and dimming
\* in [10,100]: a brightness below 10 is sent as 10, one in [10,100] is sent
\* unchanged, one above 100 is sent as floor(brightness * 100 / 255) clamped
\* into [10,100], so that 255 is sent as 100
C18_SetPilotRanges ==
    wizOp = "set_color" =>
        LET p   == LastSent.params
            bri == wizArgs[4]
        IN  /\ Len(wizSent) = 1
            /\ LastSent.method = "setPilot"
            /\ p.r \in 0..255 /\ p.g \in 0..255 /\ p.b \in 0..255
            /\ p.dimming \in 10..100
            /\ bri < 10 => p.dimming = 10
            /\ bri \in 10..100 => p.dimming = bri
            /\ bri > 100 =>
                  LET f == (bri * 100) \div 255
                  IN  p.dimming = IF f < 10 THEN 10 ELSE IF f > 100 THEN 100 ELSE f
            /\ bri = 255 => p.dimming = 100

\* an 8-bit brightness that the rescale brings below 100, with channels
\* that had to be clamped
C18_Witness ==
    /\ wizOp = "set_color"
    /\ wizPc = "done"
    /\ wizArgs = <<-1, 256, 300, 200>>
    /\ LastSent.params.dimming = 78
    /\ LastSent.params.r = 0
    /\ LastSent.params.g = 255

RECURSIVE FirstHeard(_, _)
FirstHeard(heard, seen) ==
    IF heard = <<>> THEN <<>>
    ELSE LET x == Head(heard)
         IN  IF x[1] \in seen THEN FirstHeard(Tail(heard), seen)
             ELSE <<[ip |-> x[1], response |-> x[2]]>>
                  \o FirstHeard(Tail(heard), seen \cup {x[1]})

\* C20: discovery returns one entry per distinct source address heard
\* before the timeout, in the order of the first responses and carrying
\* each address's first response
C20_DiscoveryDistinct ==
    (wizOp = "discover" /\ wizPc = "done" /\ wizResult.kind = "lights") =>
        LET found == wizResult.lights
        IN  /\ found = FirstHeard(wizHeard, {})
            /\ Len(found) = Cardinality({wizHeard[i][1] : i \in 1..Len(wizHeard)})
            /\ \A i, j \in 1..Len(found) : found[i].ip = found[j].ip => i = j

\* three addresses and one repeat, whose payload differs from the first
C20_Witness ==
    /\ wizOp = "discover"
    /\ wizPc = "done"
    /\ wizResult.kind = "lights"
    /\ Len(wizHeard) = 4
    /\ Len(wizResult.lights) = 3
    /\ \E i, j \in 1..4 : /\ i < j
                           /\ wizHeard[i][1] = wizHeard[j][1]
                           /\ wizHeard[i][2] # wizHeard[j][2]
                           /\ j < 4

\* a response that does not parse has been received by the call in progress
HeardGarbage == \E i \in 1..Len(wizHeard) : ~Parses(wizHeard[i][2])

\* C21: a response that is not JSON never propagates as an exception: an
\* awaited call on a fixture returns an error value, and discovery neither
\* raises nor loses the fixtures it had collected
C21_MalformedContained ==
    HeardGarbage =>
        /\ wizResult.kind # "raised"
        /\ (wizPc = "done" /\ Addressed(wizIp)) => wizResult.kind = "error"
        /\ (wizPc = "done" /\ ~Addressed(wizIp)) =>
              /\ wizResult.kind = "lights"
              /\ wizResult.lights = wizLights

\* ------------------------------------------------------------------------
\* Properties of the API server and of the visualizer commands
\* ------------------------------------------------------------------------

\* C22: when discovery finds no fixture, the visualizers exit before a
\* session is built and send no command, and each operation on the first
\* fixture answers 404 'No lights found on network', not the 500 of the
\* other failures
C22_NoDevicesDistinct ==
    /\ (boot.prog \in Programs /\ boot.found = Lights(<<>>)) =>
          /\ boot.exit = 1
          /\ ~boot.session
          /\ boot.sent = <<>>
    /\ (api.op \in FirstLightOps /\ api.found = Lights(<<>>)) =>
          /\ api.status = 404
          /\ api.detail = "No lights found on network"
          /\ api.sent = <<>>

\* ------------------------------------------------------------------------
\* Fan-out routing
\* ------------------------------------------------------------------------

\* the command fixture i is to receive from a command set: command i of a
\* list as long as the fixtures are many, else the first element of a list,
\* else the tuple itself
Routed(v, n, i) ==
    IF v.py = "list" /\ Len(v.items) = n THEN v.items[i].v
    ELSE IF v.py = "list" THEN v.items[1].v
    ELSE [k \in 1..Len(v.items) |-> v.items[k].v[1]]

\* C23: for each command set the dispatch loop has taken, one set-colour
\* task per fixture is submitted, fixture i receiving command i of a list
\* as long as the fixtures are many and the one common command otherwise
C23_FanOutRouting ==
    colors.id \in taken =>
        LET r == FanOut(colors, nLights)
        IN  /\ Len(r.tasks) = nLights
            /\ \A i \in 1..nLights :
                  /\ <<colors.id, i>> \in submitted
                  /\ r.tasks[i].light = i
                  /\ r.tasks[i].cmd = Routed(colors.val, nLights, i)

\* ------------------------------------------------------------------------
\* Properties of the cycle of the real-time visualizer
\* ------------------------------------------------------------------------

\* the frame of the last cycle was below the silence threshold
WasSilent == rtChunk.rms < SILENCE_THRESHOLD

\* the window h after one more sample: the newest min(Len(h) + 1, 40)
Newest(h, crest) ==
    LET a == Append(h, crest)
    IN  IF Len(h) < CrestWindow THEN a ELSE SubSeq(a, Len(a) - CrestWindow + 1, Len(a))

\* C24 as stated: every cycle, whatever the loudness of its frame, appends
\* one crest sample to the window
C24_SampledEveryCycle ==
    rtCycles > 0 =>
        /\ rt.sampled
        /\ rt.crest_factor_history = Newest(rtPrev.crest_factor_history, rtChunk.crest)

\* C24, amended: a cycle on a frame at or above the silence threshold
\* appends exactly one crest sample, evicting the oldest of a full window;
\* a cycle on a silent frame leaves the window as it was; the window never
\* holds more than 40 samples
C24_SampledWhenAudible ==
    /\ Len(rt.crest_factor_history) <= CrestWindow
    /\ rtCycles > 0 =>
          IF WasSilent
          THEN /\ ~rt.sampled
               /\ rt.crest_factor_history = rtPrev.crest_factor_history
          ELSE /\ rt.sampled
               /\ rt.crest_factor_history
                     = Newest(rtPrev.crest_factor_history, rtChunk.crest)

\* an audible frame on a full window whose oldest sample, unlike the rest,
\* was a peak: the peak is gone and the new sample is last
C24_Witness ==
    /\ rtCycles > 0
    /\ ~WasSilent
    /\ Len(rtPrev.crest_factor_history) = CrestWindow
    /\ rtPrev.crest_factor_history[1] = 5000
    /\ rt.crest_factor_history[1] = 2900
    /\ rt.crest_factor_history[CrestWindow] = rtChunk.crest
    /\ rtChunk.crest = 1500

\* C30: in a run of consecutive silent frames one (0,0,0,0) command set is
\* sent, at the first frame of the run and whatever the throttle; the other
\* frames of the run send nothing, and no frame of the run changes the mode,
\* a mapper, the window or the time of the last throttled update
C30_SilenceBlackout ==
    rtCycles > 0 =>
        /\ rt.is_silent <=> WasSilent
        /\ WasSilent =>
              /\ rt.sent = IF rtPrev.is_silent THEN <<>> ELSE <<PyTuple4(0, 0, 0, 0)>>
              /\ rt.current_mode = rtPrev.current_mode
              /\ rt.mappers = rtPrev.mappers
              /\ rt.crest_factor_history = rtPrev.crest_factor_history
              /\ rt.sinceUpdate >= rtPrev.sinceUpdate

\* the blackout went out 20 ms after a throttled update, and the next
\* silent frame sent nothing
C30_Witness ==
    /\ rtCycles >= 3
    /\ WasSilent
    /\ rtPrev.is_silent
    /\ rtPrev.sent = <<PyTuple4(0, 0, 0, 0)>>
    /\ rtPrev.sinceUpdate < THROTTLE_TIME
    /\ rt.sent = <<>>

\* the colour of a history entry <<level, r, g, b>>
EntryColour(e) == <<e[2], e[3], e[4]>>

\* the colour of the second command of a returned list
FollowerColour(returned) ==
    LET c == Commands(returned)[2] IN <<c[1], c[2], c[3]>>

\* C25: once the history of BeatLeaderFollowerMapper is full it holds the
\* entries of the last delay_frames calls, oldest first; the next call then
\* gives the second fixture the colour computed delay_frames calls before
\* it, which is the oldest entry held, and the history never holds more than
\* delay_frames entries
C25_FollowerDelay ==
    ms.kind = "BeatLeaderFollower" =>
        /\ Len(ms.history) <= ms.delay_frames
        /\ Len(ms.history) = ms.delay_frames =>
              \A f \in Frames :
                  LET r == BeatLeaderFollowerMapLights(ms, f[1], f[2], f[3], 2)
                  IN  /\ FollowerColour(r.out) = EntryColour(ms.history[1])
                      /\ Len(r.st.history) <= ms.delay_frames

\* the treble levels of the second run
Trebles == {0, Scale \div 2, Scale}

\* the brightness of the first command of a returned list
FirstBrightness(r) == Commands(r.out)[1][4]

\* the brightness of the second command of a returned list
SecondBrightness(r) == Commands(r.out)[2][4]

\* two runs that go on from s with the same bass and mids, the second with
\* another treble in its first call, give the first fixture the same
\* brightness in that call and in the call after it
TrebleBlind(s) ==
    \A f \in Frames, g \in Frames, t \in Trebles :
        LET a == MapLights(s, f[1], f[2], f[3], 2, 50)
            b == MapLights(s, f[1], f[2], t, 2, 50)
        IN  /\ FirstBrightness(a) = FirstBrightness(b)
            /\ FirstBrightness(MapLights(a.st, g[1], g[2], g[3], 2, 50))
                 = FirstBrightness(MapLights(b.st, g[1], g[2], g[3], 2, 50))

\* C26 as stated: every dual-fixture mapper gives the first fixture the same
\* brightness sequence in two runs that differ only in treble
C26_IndependentTrackers == ms.kind \in DualKinds => TrebleBlind(ms)

\* C26, amended: SpectrumGradientMapper, the one dual-fixture mapper with a
\* peak tracker per fixture, gives the first fixture the same brightness
\* sequence in two runs that differ only in treble
C26_GradientTrackers == ms.kind = "SpectrumGradient" => TrebleBlind(ms)

\* a SpectrumGradientMapper that has been called, where another treble
\* changes the second fixture's brightness and the first fixture is lit
C26_Witness ==
    /\ ms.kind = "SpectrumGradient"
    /\ calls >= 2
    /\ \E f \in Frames, t \in Trebles :
          LET a == MapLights(ms, f[1], f[2], f[3], 2, 50)
              b == MapLights(ms, f[1], f[2], t, 2, 50)
          IN  /\ SecondBrightness(a) # SecondBrightness(b)
              /\ b.st.peak_high # a.st.peak_high
              /\ FirstBrightness(a) > ms.min_b

\* C29: the dimming that set_color transmits does not fall when the
\* brightness rises: no smaller brightness would have been sent with a
\* larger dimming than the one of the call just made
C29_DimmingMonotone ==
    wizOp = "set_color" =>
        \A b1 \in BrightnessInputs :
            b1 <= wizArgs[4] => Dimming(b1) <= LastSent.params.dimming

\* C27: discovery stops collecting when DiscoverWait has elapsed since the
\* broadcast, whatever arrives and however close together: no datagram is
\* taken later than that, the call returns within one more wait of the
\* socket, and it returns the fixtures collected
C27_DiscoveryDeadline ==
    wizOp = "discover" =>
        /\ wizPc = "collect" => wizElapsed <= DiscoverWait
        /\ wizPc = "done" => wizElapsed <= 2 * DiscoverWait
        /\ (wizPc = "done" /\ ~HeardGarbage) => wizResult = Lights(wizLights)

\* C28: every chunk start() hands to _process_audio_chunk has at least one
\* sample, for every file of at least one sample, looping or not, so the
\* analyzer raises nothing, and playback that does not loop ends with the
\* break after the chunk that reaches the end of the file
C28_NoEmptyChunk ==
    /\ played > 0 => chunk >= 1
    /\ playPc # "raised"
    /\ playPc = "ended" => (~audio.loop /\ current_position = audio.total_samples)
====
